---- MODULE Spec2Model ----
(***************************************************************************)
(* A model of the packet-inspection automata and the HTTP validators:      *)
(*   - AhoCorasick   (backend/src/packet_inspection/ac/aho_corasick.cpp)    *)
(*   - DfaMatcher    (backend/src/packet_inspection/dfa/dfa_matcher.cpp)    *)
(*   - PDAEngine     (docs/HTTP-PDA_Validation/PDAEngine.cpp)               *)
(*   - HttpPdaValidator (backend/src/protocol_validation/http_pda/...)      *)
(* Characters are one-symbol strings; "SP", "CR", "LF" and "TAB" stand for *)
(* the space, carriage return, line feed and tab characters.  A C++ string *)
(* is a sequence of characters.                                            *)
(***************************************************************************)
EXTENDS Integers, Sequences, FiniteSets, TLC

VARIABLES
    \* ---- AhoCorasick instance and the driver's last scan
    acPatterns,     \* the pattern list the automaton was last built from (none after clear)
    root,           \* AhoCorasick::root      (NoNode when null)
    nextNodeId,     \* AhoCorasick::nextNodeId
    children,       \* TrieNode::children, per node id: char -> node id
    failLink,       \* TrieNode::failLink, per node id (NoNode when null)
    output,         \* TrieNode::output,   per node id: sequence of patterns
    scanText,       \* the text given to the last scan (NoText before any)
    scanResult,     \* the ScanResult the last scan returned
    scanArgs,       \* the packet id and payload renderings given to the last scan
    rescanned,      \* the held result comes from scanning the same text once more
    acBuilds,       \* buildFromPatterns calls completed on the instance (bounded)
    \* ---- DfaMatcher instance and the driver's last matches() call
    start_state_,   \* DfaMatcher::start_state_
    transitions_,   \* DfaMatcher::transitions_: <<state, symbol>> -> state
    accepting_,     \* DfaMatcher::accepting_:   state -> bool
    dfaOps,         \* number of mutating calls made so far (bounded)
    matchData,      \* the data given to the last matches() (NoText before any)
    matchResult,    \* what the last matches() returned
    pattern_matcher_,   \* DfaMatcher::pattern_matcher_ (null, or a PatternMatcher)
    payload,        \* the payload given to the last inspection (NoText before any)
    inspectResult,  \* what inspect_payload returned for it
    anomalies,      \* what get_payload_anomalies returned for it
    \* ---- the HTTP message under validation and the two validators
    msg,            \* the message handed to both validators
    shape,          \* how the driver assembled msg (request line, headers, ...)
    phase,          \* "engine" -> "outer" -> "done": the driver's position
    pda,            \* the PDAEngine object (all its fields, and the loop index)
    hv,             \* the HttpPdaValidator call (stream position, stack_, ...)
    calls,          \* validate calls completed on the two validator objects (bounded)
    \* ---- DFABuilder instance and the driver's last match
    dfabPatterns,   \* the pattern list given to the last DFABuilder::buildFromPatterns
    states,         \* DFABuilder::states: state id -> DFAState
    startState,     \* DFABuilder::startState ("" is the empty sequence)
    dfabBuilds,     \* buildFromPatterns calls completed on the instance (bounded)
    matchText,      \* the text given to the last match (NoText before any)
    matchPositions, \* what the last match returned
    \* ---- PacketReader::readPcapFile, one call
    pcapFile,       \* the capture file the call was given
    filePos,        \* records of the file the call has read so far
    packetId,       \* readPcapFile's local packetId
    packets,        \* readPcapFile's local packets (the vector it returns)
    readerPc,       \* "idle", "loop" (inside the while loop) or "returned"
    \* ---- the API server: its globals, the uploaded file, its threads
    g_patterns,     \* g_patterns: the categories in key order, each with its patterns
    g_dataMutex,    \* g_dataMutex: the thread that holds it (NoThread when free)
    serverPc,       \* where main() is: "start", "building_ac", "building_dfa", "running"
    uploaded,       \* the contents of the file "uploaded_packet.pcap"
    worker,         \* per worker thread: the request it serves and its handler's locals
    \* ---- PDAController and the frontend that drives it
    ctl,            \* the PDAController object: pda, payload, traceIndex
    front           \* what the frontend called last and what the calls returned

acVars   == <<acPatterns, root, nextNodeId, children, failLink, output, scanText, scanResult,
             scanArgs, rescanned, acBuilds>>
pmVars   == <<pattern_matcher_, payload, inspectResult, anomalies>>
dfaVars  == <<start_state_, transitions_, accepting_, dfaOps, matchData, matchResult, pmVars>>
httpVars == <<msg, shape, phase, pda, hv, calls>>
dfabVars == <<dfabPatterns, states, startState, dfabBuilds, matchText, matchPositions>>
pcapVars == <<pcapFile, filePos, packetId, packets, readerPc>>
srvVars  == <<g_patterns, g_dataMutex, serverPc, uploaded, worker>>
ctlVars  == <<ctl, front>>
vars     == <<acVars, dfaVars, httpVars, dfabVars, pcapVars, srvVars, ctlVars>>

-----------------------------------------------------------------------------
(* Bounds of the model *)

MaxPatterns == 2        \* patterns in one pattern list
MaxPatChars == 3        \* total characters over the patterns of one list
MaxTextLen  == 3        \* characters in a scanned text
MaxDfaOps   == 3        \* add_transition / add_accepting_state calls on one DfaMatcher
MaxDataLen  == 3        \* bytes in the data given to DfaMatcher::matches
MaxHeaders  == 2        \* ordinary header lines in an assembled HTTP message
MaxSigs     == 2        \* signatures a PatternMatcher is configured with
MaxSigChars == 2        \* characters in one signature
MaxPayloadLen == 2      \* characters in an inspected payload
MaxCalls    == 2        \* validate calls made on one validator object
MaxBuilds   == 2        \* buildFromPatterns calls made on one automaton
MaxRecords  == 2        \* packet records in one capture file
MaxThreads  == 2        \* worker threads of the API server
MaxCtlCalls == 3        \* loadPacket / validate calls made on one PDAController

NoNode == -1
NoText == <<"none">>

-----------------------------------------------------------------------------
(* Characters *)

UpperChars == {"A", "B", "C", "E", "G", "H", "L", "P", "T"}
LowerChars == {"a", "b", "c", "e", "g", "h", "l", "n", "o", "p", "s", "t", "x"}
DigitChars == {"0", "1", "2", "9"}
PunctChars == {"/", ".", "-", ":", "+"}
SpaceChars == {"SP", "TAB", "CR", "LF"}
Chars      == UpperChars \cup LowerChars \cup DigitChars \cup PunctChars \cup SpaceChars

\* std::tolower in the C locale
ToLower(c) ==
    CASE c = "A" -> "a" [] c = "B" -> "b" [] c = "C" -> "c" [] c = "E" -> "e" [] c = "G" -> "g"
      [] c = "H" -> "h" [] c = "L" -> "l" [] c = "P" -> "p" [] c = "T" -> "t"
      [] c = "D" -> "d" [] c = "I" -> "i" [] c = "N" -> "n" [] c = "O" -> "o"
      [] c = "R" -> "r" [] c = "S" -> "s" [] c = "U" -> "u"
      [] OTHER -> c

LowerStr(s) == [k \in 1..Len(s) |-> ToLower(s[k])]

\* the order of char keys in a std::map<char, ...> (ASCII code order)
CharCode(c) ==
    CASE c = "TAB" -> 9 [] c = "LF" -> 10 [] c = "CR" -> 13 [] c = "SP" -> 32
      [] c = "+" -> 43 [] c = "-" -> 45 [] c = "." -> 46 [] c = "/" -> 47
      [] c = "0" -> 48 [] c = "1" -> 49 [] c = "2" -> 50 [] c = "9" -> 57
      [] c = "3" -> 51 [] c = "4" -> 52 [] c = "5" -> 53 [] c = "6" -> 54
      [] c = "7" -> 55 [] c = "8" -> 56
      [] c = ":" -> 58
      [] c = "A" -> 65 [] c = "B" -> 66 [] c = "C" -> 67 [] c = "E" -> 69 [] c = "G" -> 71
      [] c = "H" -> 72 [] c = "L" -> 76 [] c = "P" -> 80 [] c = "T" -> 84
      [] c = "a" -> 97 [] c = "b" -> 98 [] c = "c" -> 99 [] c = "e" -> 101
      [] c = "g" -> 103 [] c = "h" -> 104 [] c = "l" -> 108 [] c = "n" -> 110
      [] c = "o" -> 111 [] c = "p" -> 112 [] c = "s" -> 115 [] c = "t" -> 116
      [] c = "x" -> 120

RECURSIVE SortedKeys(_)
SortedKeys(S) ==
    IF S = {} THEN <<>>
    ELSE LET m == CHOOSE x \in S : \A y \in S : CharCode(x) <= CharCode(y)
         IN  <<m>> \o SortedKeys(S \ {m})

\* all sequences over S of length at most n
RECURSIVE SeqsUpTo(_, _)
SeqsUpTo(S, n) ==
    IF n = 0 THEN {<<>>}
    ELSE LET shorter == SeqsUpTo(S, n - 1)
         IN  shorter \cup {Append(s, x) : s \in {t \in shorter : Len(t) = n - 1}, x \in S}

RECURSIVE SumLen(_)
SumLen(ps) == IF ps = <<>> THEN 0 ELSE Len(Head(ps)) + SumLen(Tail(ps))

-----------------------------------------------------------------------------
(* AhoCorasick *)

PatternChars == {"a", "B"}
TextChars    == {"A", "b", "B"}

PatternLists ==
    {ps \in SeqsUpTo(SeqsUpTo(PatternChars, MaxPatChars), MaxPatterns) :
        SumLen(ps) <= MaxPatChars}

Texts == SeqsUpTo(TextChars, MaxTextLen)

EmptyMap == [c \in {} |-> NoNode]

\* The trie as one value: the fields of AhoCorasick and of its nodes.
Trie(r, n, ch, fl, out) ==
    [root |-> r, nextNodeId |-> n, children |-> ch, failLink |-> fl, output |-> out]

\* an AhoCorasick as constructed (no root, nextNodeId = 0)
ClearedTrie == Trie(NoNode, 0, <<>>, <<>>, <<>>)

\* clear() leaving the id counter where it was
clear_keepCounter(t) == [ClearedTrie EXCEPT !.nextNodeId = t.nextNodeId]

\* clear() on the instance t: the root is dropped, and with it every node (no
\* node of t can be reached from the instance any more); the counter restarts
clear(t) == [t EXCEPT !.root = NoNode, !.nextNodeId = 0,
                      !.children = <<>>, !.failLink = <<>>, !.output = <<>>]

\* createNode(): a fresh node with id nextNodeId, no children, null failLink;
\* returns the trie with the node added (its id is the old nextNodeId).
CreateNode(t) ==
    LET id == t.nextNodeId
    IN  [t EXCEPT !.nextNodeId = id + 1,
                  !.children   = (id :> EmptyMap) @@ @,
                  !.failLink   = (id :> NoNode) @@ @,
                  !.output     = (id :> <<>>) @@ @]

\* insertPattern: walk/create the chain of lower-cased characters from
\* `current`, then push the original pattern on the end node's output.
RECURSIVE InsertFrom(_, _, _, _)
InsertFrom(t, current, pattern, k) ==
    IF k > Len(pattern)
    THEN [t EXCEPT !.output[current] = Append(@, pattern)]
    ELSE LET lowerC == ToLower(pattern[k])
         IN  IF lowerC \notin DOMAIN t.children[current]
             THEN LET id == t.nextNodeId
                      t1 == CreateNode(t)
                      t2 == [t1 EXCEPT !.children[current] = (lowerC :> id) @@ @]
                  IN  InsertFrom(t2, id, pattern, k + 1)
             ELSE InsertFrom(t, t.children[current][lowerC], pattern, k + 1)

insertPattern(t, pattern) == InsertFrom(t, t.root, pattern, 1)

\* the loop over the patterns left after its first iteration
InsertAll_firstOnly(t, patterns) ==
    IF patterns = <<>> THEN t ELSE insertPattern(t, Head(patterns))

RECURSIVE InsertAll(_, _)
InsertAll(t, patterns) ==
    IF patterns = <<>> THEN t
    ELSE InsertAll(insertPattern(t, Head(patterns)), Tail(patterns))

\* the while loop of buildFailLinks, lines 67-70
RECURSIVE FindFail(_, _, _)
FindFail(t, failNode, c) ==
    IF failNode # t.root /\ c \notin DOMAIN t.children[failNode]
    THEN FindFail(t, t.failLink[failNode], c)
    ELSE failNode

\* every fail link set to the root
FailTarget_root(t, node, c) == t.root

\* lines 72-76: the fail link of the child reached from `node` on c
FailTarget(t, node, c) ==
    LET failNode == FindFail(t, t.failLink[node], c)
    IN  IF c \in DOMAIN t.children[failNode]
        THEN t.children[failNode][c]
        ELSE t.root

\* lines 78-81: merge the output of the fail link into the child's output
MergeOutput(t, child) ==
    [t EXCEPT !.output[child] = @ \o t.output[t.failLink[child]]]

\* the body of the for loop over node->children, lines 63-82; st = <<trie, queue>>
RECURSIVE LinkChildren(_, _, _)
LinkChildren(st, node, keys) ==
    IF keys = <<>> THEN st
    ELSE LET t     == st[1]
             c     == Head(keys)
             child == t.children[node][c]
             t1    == [t EXCEPT !.failLink[child] = FailTarget(t, node, c)]
             t2    == MergeOutput(t1, child)
         IN  LinkChildren(<<t2, Append(st[2], child)>>, node, Tail(keys))

\* the while loop over the queue, lines 59-83
RECURSIVE FailLoop(_)
FailLoop(st) ==
    IF st[2] = <<>> THEN st[1]
    ELSE LET node == Head(st[2])
         IN  FailLoop(LinkChildren(<<st[1], Tail(st[2])>>, node,
                                   SortedKeys(DOMAIN st[1].children[node])))

\* lines 52-56: root and the depth-1 nodes point to root; the depth-1 nodes
\* are queued (no output is merged into them)
RECURSIVE LinkDepthOne(_, _)
LinkDepthOne(st, keys) ==
    IF keys = <<>> THEN st
    ELSE LET t     == st[1]
             child == t.children[t.root][Head(keys)]
         IN  LinkDepthOne(<<[t EXCEPT !.failLink[child] = t.root], Append(st[2], child)>>,
                          Tail(keys))

buildFailLinks(t) ==
    IF t.root = NoNode THEN t
    ELSE LET t1 == [t EXCEPT !.failLink[t.root] = t.root]
         IN  FailLoop(LinkDepthOne(<<t1, <<>>>>, SortedKeys(DOMAIN t1.children[t1.root])))

\* buildFromPatterns, lines 14-15: clear, then root = createNode()
ClearAndRoot(t) ==
    LET c == clear(t)
    IN  [CreateNode(c) EXCEPT !.root = c.nextNodeId]

\* buildFromPatterns on the instance t: clear, create the root, insert, build
\* the fail links
buildFromPatterns(t, patterns) == buildFailLinks(InsertAll(ClearAndRoot(t), patterns))

\* buildFromPatterns on the instance t abandoned by an exception (no handler in
\* the function; std::bad_alloc from an allocation): at the allocation of the
\* root, at the first allocation made for the first pattern, or at the
\* allocation of the queue of buildFailLinks
InterruptPoints == {"root", "insert", "links"}

InterruptedBuild(t, patterns, at) ==
    CASE at = "root"   -> clear(t)
      [] at = "insert" -> ClearAndRoot(t)
      [] at = "links"  -> InsertAll(ClearAndRoot(t), patterns)

\* scan, lines 104-106: follow fail links while there is no child on c
RECURSIVE FollowFail(_, _, _)
FollowFail(t, current, c) ==
    IF current # t.root /\ c \notin DOMAIN t.children[current]
    THEN FollowFail(t, t.failLink[current], c)
    ELSE current

\* the step to a child or else to the root, following no fail link
Advance_nofail(t, current, c) ==
    IF c \in DOMAIN t.children[current] THEN t.children[current][c] ELSE t.root

\* scan, lines 104-111: the node after consuming one character
Advance(t, current, c) ==
    LET n == FollowFail(t, current, c)
    IN  IF c \in DOMAIN t.children[n] THEN t.children[n][c] ELSE n

\* recording every pattern of `outs`, found before or not
RECURSIVE RecordMatches_all(_, _, _)
RecordMatches_all(res, outs, i) ==
    IF outs = <<>> THEN res
    ELSE RecordMatches_all([res EXCEPT
                               !.matches = Append(@, [pattern |-> Head(outs), position |-> i]),
                               !.found   = @ \cup {Head(outs)}],
                           Tail(outs), i)

\* std::map::operator[] on the children of node n: a missing key is inserted
\* with a null child
IndexChildren(t, n, c) ==
    IF c \in DOMAIN t.children[n] THEN t
    ELSE [t EXCEPT !.children[n] = (c :> NoNode) @@ @]

\* the step of scan indexing the children without looking the key up first
TouchChildren_unguarded(t, current, c) == IndexChildren(t, FollowFail(t, current, c), c)

\* scan, lines 104-111: the trie after one step; children[c] is indexed only
\* when find(c) found the key
TouchChildren(t, current, c) ==
    LET n == FollowFail(t, current, c)
    IN  IF c \in DOMAIN t.children[n] THEN IndexChildren(t, n, c) ELSE t

\* scan, lines 121-126: record the patterns of `outs` not yet found
RECURSIVE RecordMatches(_, _, _)
RecordMatches(res, outs, i) ==
    IF outs = <<>> THEN res
    ELSE LET pattern == Head(outs)
         IN  IF pattern \notin res.found
             THEN RecordMatches([res EXCEPT
                                    !.matches = Append(@, [pattern |-> pattern, position |-> i]),
                                    !.found   = @ \cup {pattern}],
                                Tail(outs), i)
             ELSE RecordMatches(res, Tail(outs), i)

\* scan, the for loop over the text (i is the 0-based index of the code)
RECURSIVE ScanLoop(_, _, _, _)
ScanLoop(t, text, i, res) ==
    IF i >= Len(text) THEN res
    ELSE LET c       == ToLower(text[i + 1])
             current == Advance(t, res.current, c)
             step    == [character |-> text[i + 1], nodeId |-> current,
                         outputs |-> t.output[current]]
             r1      == RecordMatches([res EXCEPT !.current = current], t.output[current], i)
         IN  ScanLoop(t, text, i + 1, [r1 EXCEPT !.steps = Append(@, step)])

\* what the caller passes to scan besides the text: a packet id, the byte
\* values of the payload and the payload itself as its ASCII rendering
ScanArgs(text) ==
    [packetId |-> Len(text) + 1, payloadHex |-> [k \in DOMAIN text |-> CharCode(text[k])],
     payloadAscii |-> text]

NoArgs == [packetId |-> 0, payloadHex |-> <<>>, payloadAscii |-> <<>>]

\* a ScanResult with the three echoed fields set and nothing else
ResultFor(a) ==
    [packetId |-> a.packetId, payloadHex |-> a.payloadHex, payloadAscii |-> a.payloadAscii,
     matches |-> <<>>, steps |-> <<>>]

EmptyResult == ResultFor(NoArgs)

\* a scan that answers a never-built automaton with an all-empty result
scan_blank(t, text, a) ==
    IF t.root = NoNode THEN EmptyResult
    ELSE LET r == ScanLoop(t, text, 0,
                           [matches |-> <<>>, steps |-> <<>>, current |-> t.root, found |-> {}])
         IN  [ResultFor(a) EXCEPT !.matches = r.matches, !.steps = r.steps]

scan(t, text, a) ==
    IF t.root = NoNode THEN ResultFor(a)
    ELSE LET r == ScanLoop(t, text, 0,
                           [matches |-> <<>>, steps |-> <<>>, current |-> t.root, found |-> {}])
         IN  [ResultFor(a) EXCEPT !.matches = r.matches, !.steps = r.steps]

\* the trie after the for loop of scan: scan is not a const member, and the
\* loop indexes children with operator[]
RECURSIVE TouchLoop(_, _, _, _)
TouchLoop(t, text, i, current) ==
    IF i >= Len(text) THEN t
    ELSE LET c  == ToLower(text[i + 1])
             t1 == TouchChildren(t, current, c)
         IN  TouchLoop(t1, text, i + 1, Advance(t, current, c))

ScanTouches(t, text) == IF t.root = NoNode THEN t ELSE TouchLoop(t, text, 0, t.root)

TheTrie == Trie(root, nextNodeId, children, failLink, output)

AcInit ==
    /\ acPatterns = <<>>
    /\ root = NoNode
    /\ nextNodeId = 0
    /\ children = <<>>
    /\ failLink = <<>>
    /\ output = <<>>
    /\ scanText = NoText
    /\ scanResult = EmptyResult
    /\ scanArgs = NoArgs
    /\ rescanned = FALSE
    /\ acBuilds = 0

\* The driver holds at most one scan result: it calls the automaton while it
\* holds none (scanText = NoText) and drops the result before the next call.
\* It works with one of the two pattern automata, the AhoCorasick or the
\* DFABuilder, and leaves the other as constructed.
DfabUnused == dfabBuilds = 0 /\ matchText = NoText
AcUnused   == acBuilds = 0 /\ scanText = NoText

\* a call of buildFromPatterns(patterns), on a fresh or an already built instance
Build ==
    /\ DfabUnused
    /\ scanText = NoText
    /\ acBuilds < MaxBuilds
    /\ \E patterns \in PatternLists :
        LET t == buildFromPatterns(TheTrie, patterns)
        IN  /\ acPatterns' = patterns
            /\ root' = t.root
            /\ nextNodeId' = t.nextNodeId
            /\ children' = t.children
            /\ failLink' = t.failLink
            /\ output' = t.output
    /\ acBuilds' = acBuilds + 1
    /\ UNCHANGED <<scanText, scanResult, scanArgs, rescanned, dfaVars, httpVars, dfabVars, pcapVars, srvVars, ctlVars>>

\* a call of buildFromPatterns(patterns) that throws, made on an instance that
\* holds a completely built automaton; the caller catches the exception and
\* keeps the instance
BuildInterrupted ==
    /\ DfabUnused
    /\ scanText = NoText
    /\ root # NoNode /\ failLink[root] = root
    /\ \E patterns \in PatternLists \ {<<>>}, at \in InterruptPoints :
        LET t == InterruptedBuild(TheTrie, patterns, at)
        IN  /\ root' = t.root
            /\ nextNodeId' = t.nextNodeId
            /\ children' = t.children
            /\ failLink' = t.failLink
            /\ output' = t.output
    /\ UNCHANGED <<acPatterns, acBuilds, scanText, scanResult, scanArgs, rescanned,
                   dfaVars, httpVars, dfabVars, pcapVars, srvVars, ctlVars>>

\* a call of the public clear() on a built instance
Clear ==
    /\ DfabUnused
    /\ scanText = NoText
    /\ root # NoNode
    /\ LET t == clear(TheTrie)
       IN  /\ root' = t.root
           /\ nextNodeId' = t.nextNodeId
           /\ children' = t.children
           /\ failLink' = t.failLink
           /\ output' = t.output
    /\ acPatterns' = <<>>
    /\ UNCHANGED <<acBuilds, scanText, scanResult, scanArgs, rescanned, dfaVars, httpVars,
                   dfabVars, pcapVars, srvVars, ctlVars>>

\* a call of scan(text, ...), on a built, a cleared or a never built instance
Scan ==
    /\ DfabUnused
    /\ scanText = NoText
    /\ \E text \in Texts :
        /\ scanText' = text
        /\ scanArgs' = ScanArgs(text)
        /\ scanResult' = scan(TheTrie, text, ScanArgs(text))
        /\ children' = ScanTouches(TheTrie, text).children
    /\ UNCHANGED <<acPatterns, root, nextNodeId, failLink, output, rescanned, acBuilds,
                   dfaVars, httpVars, dfabVars, pcapVars, srvVars, ctlVars>>

\* a second call of scan with the arguments of the one before
Rescan ==
    /\ scanText # NoText
    /\ ~rescanned
    /\ scanResult' = scan(TheTrie, scanText, scanArgs)
    /\ children' = ScanTouches(TheTrie, scanText).children
    /\ rescanned' = TRUE
    /\ UNCHANGED <<acPatterns, root, nextNodeId, failLink, output, scanText, scanArgs,
                   acBuilds, dfaVars, httpVars, dfabVars, pcapVars, srvVars, ctlVars>>

\* the driver drops the scan result it holds
DropScan ==
    /\ scanText # NoText
    /\ scanText' = NoText
    /\ scanResult' = EmptyResult
    /\ scanArgs' = NoArgs
    /\ rescanned' = FALSE
    /\ UNCHANGED <<acPatterns, root, nextNodeId, children, failLink, output, acBuilds,
                   dfaVars, httpVars, dfabVars, pcapVars, srvVars, ctlVars>>

-----------------------------------------------------------------------------
(* DFABuilder *)

\* createStateId: "S" followed by the index
createStateId(index) == <<"S", index>>

\* a DFAState that accepts nothing and has no transition
NewState(id) ==
    [id |-> id, isAccepting |-> FALSE, acceptingPatterns |-> <<>>, transitions |-> EmptyMap]

DFA(st, start) == [states |-> st, startState |-> start]

\* a DFABuilder as constructed: no state, the empty start state id
NewBuilder == DFA(<<>>, <<>>)

\* clear() keeping the states
dfa_clear_keepStates(b) == [b EXCEPT !.startState = <<>>]

\* DFABuilder::clear
dfa_clear(b) == [b EXCEPT !.states = <<>>, !.startState = <<>>]

\* std::map::operator[] assignment states[id] = st
PutState(b, id, st) == [b EXCEPT !.states = (id :> st) @@ @]

\* the chain of one pattern without the revert of the state counter (line 38)
RECURSIVE Chain_norevert(_, _, _, _)
Chain_norevert(w, currentState, pattern, i) ==
    LET b == w[1]
        stateCounter == w[2]
    IN  IF i > Len(pattern)
        THEN <<[b EXCEPT !.states[currentState].isAccepting = TRUE,
                         !.states[currentState].acceptingPatterns = Append(@, pattern)],
               stateCounter>>
        ELSE LET lowerC == ToLower(pattern[i])
                 fresh  == lowerC \notin DOMAIN b.states[currentState].transitions
                 nextState == IF fresh THEN createStateId(stateCounter)
                              ELSE b.states[currentState].transitions[lowerC]
                 b1 == IF fresh
                       THEN [b EXCEPT !.states[currentState].transitions =
                                          (lowerC :> nextState) @@ @]
                       ELSE b
                 b2 == IF nextState \notin DOMAIN b1.states
                       THEN PutState(b1, nextState, NewState(nextState))
                       ELSE b1
             IN  Chain_norevert(<<b2, stateCounter + 1>>, nextState, pattern, i + 1)

\* buildNFA, lines 29-54: the chain of one pattern from position i on;
\* w = <<builder, stateCounter>>
RECURSIVE Chain(_, _, _, _)
Chain(w, currentState, pattern, i) ==
    LET b == w[1]
        stateCounter == w[2]
    IN  IF i > Len(pattern)
        THEN <<[b EXCEPT !.states[currentState].isAccepting = TRUE,
                         !.states[currentState].acceptingPatterns = Append(@, pattern)],
               stateCounter>>
        ELSE LET lowerC == ToLower(pattern[i])
                 fresh  == lowerC \notin DOMAIN b.states[currentState].transitions
                 nextState == IF fresh THEN createStateId(stateCounter)
                              ELSE b.states[currentState].transitions[lowerC]
                 b1 == IF fresh
                       THEN [b EXCEPT !.states[currentState].transitions =
                                          (lowerC :> nextState) @@ @]
                       ELSE b
                 b2 == IF nextState \notin DOMAIN b1.states
                       THEN PutState(b1, nextState, NewState(nextState))
                       ELSE b1
             IN  Chain(<<b2, IF fresh THEN stateCounter + 1 ELSE stateCounter>>,
                       nextState, pattern, i + 1)

RECURSIVE Chains(_, _)
Chains(w, patterns) ==
    IF patterns = <<>> THEN w
    ELSE Chains(Chain(w, w[1].startState, Head(patterns), 1), Tail(patterns))

\* buildNFA: the start state S0, then one chain per pattern; the state counter
\* is a local that starts at 1
buildNFA(b, patterns) ==
    LET S0 == createStateId(0)
        b0 == PutState([b EXCEPT !.startState = S0], S0, NewState(S0))
    IN  Chains(<<b0, 1>>, patterns)[1]

\* DFABuilder::buildFromPatterns on the instance b
dfa_buildFromPatterns(b, patterns) == buildNFA(dfa_clear(b), patterns)

\* match that reports the position also when the retried byte leads nowhere
MatchStep_eager(b, currentState, c) ==
    IF c \in DOMAIN b.states[currentState].transitions
    THEN LET to == b.states[currentState].transitions[c]
         IN  [state |-> to, hit |-> b.states[to].isAccepting]
    ELSE IF c \in DOMAIN b.states[b.startState].transitions
         THEN LET to == b.states[b.startState].transitions[c]
              IN  [state |-> to, hit |-> b.states[to].isAccepting]
         ELSE [state |-> b.startState, hit |-> TRUE]

\* match, lines 70-88: the state after one byte, and whether its position is
\* reported
MatchStep(b, currentState, c) ==
    IF c \in DOMAIN b.states[currentState].transitions
    THEN LET to == b.states[currentState].transitions[c]
         IN  [state |-> to, hit |-> b.states[to].isAccepting]
    ELSE IF c \in DOMAIN b.states[b.startState].transitions
         THEN LET to == b.states[b.startState].transitions[c]
              IN  [state |-> to, hit |-> b.states[to].isAccepting]
         ELSE [state |-> b.startState, hit |-> FALSE]

\* match, the for loop (i is the 0-based index of the code)
RECURSIVE MatchFrom(_, _, _, _, _)
MatchFrom(b, text, i, currentState, matchPos) ==
    IF i >= Len(text) THEN matchPos
    ELSE LET r == MatchStep(b, currentState, ToLower(text[i + 1]))
         IN  MatchFrom(b, text, i + 1, r.state,
                       IF r.hit THEN Append(matchPos, i) ELSE matchPos)

\* DFABuilder::match
match(b, text) ==
    IF DOMAIN b.states = {} THEN <<>>
    ELSE MatchFrom(b, text, 0, b.startState, <<>>)

TheDfa == DFA(states, startState)

DfabInit ==
    /\ dfabPatterns = <<>>
    /\ states = <<>>
    /\ startState = <<>>
    /\ dfabBuilds = 0
    /\ matchText = NoText
    /\ matchPositions = <<>>

\* a call of DFABuilder::buildFromPatterns, on a fresh or an already built
\* instance (the driver holds no match result)
DfabBuild ==
    /\ AcUnused
    /\ matchText = NoText
    /\ dfabBuilds < MaxBuilds
    /\ \E patterns \in PatternLists :
        LET b == dfa_buildFromPatterns(TheDfa, patterns)
        IN  /\ dfabPatterns' = patterns
            /\ states' = b.states
            /\ startState' = b.startState
    /\ dfabBuilds' = dfabBuilds + 1
    /\ UNCHANGED <<matchText, matchPositions, acVars, dfaVars, httpVars, pcapVars, srvVars, ctlVars>>

\* a call of DFABuilder::match, on a built or a never built instance
DfabMatch ==
    /\ AcUnused
    /\ matchText = NoText
    /\ \E text \in Texts :
        /\ matchText' = text
        /\ matchPositions' = match(TheDfa, text)
    /\ UNCHANGED <<dfabPatterns, states, startState, dfabBuilds, acVars, dfaVars, httpVars, pcapVars, srvVars, ctlVars>>

\* the driver drops the match result it holds
DfabDrop ==
    /\ matchText # NoText
    /\ matchText' = NoText
    /\ matchPositions' = <<>>
    /\ UNCHANGED <<dfabPatterns, states, startState, dfabBuilds, acVars, dfaVars, httpVars, pcapVars, srvVars, ctlVars>>

-----------------------------------------------------------------------------
(* DfaMatcher *)

DfaStates  == {0, 1, 2}
DfaSymbols == {"a", "A"}
DfaData    == SeqsUpTo(DfaSymbols, MaxDataLen)

NoTransitions == [k \in {} |-> 0]
NoAccepting   == [s \in {} |-> FALSE]

\* add_transition: transitions_[{from, symbol}] = to (the last write wins)
add_transition(tr, from, symbol, to) ==
    [k \in DOMAIN tr \cup {<<from, symbol>>} |->
        IF k = <<from, symbol>> THEN to ELSE tr[k]]

\* add_accepting_state: accepting_[s] = true
add_accepting_state(acc, s) ==
    [k \in DOMAIN acc \cup {s} |-> IF k = s THEN TRUE ELSE acc[k]]

\* the for loop of matches: NoNode once a (current, ch) has no transition
\* (the code returns false there), else the state after the last byte
RECURSIVE MatchLoop(_, _, _)
MatchLoop(tr, current, data) ==
    IF data = <<>> THEN current
    ELSE IF <<current, Head(data)>> \notin DOMAIN tr THEN NoNode
    ELSE MatchLoop(tr, tr[<<current, Head(data)>>], Tail(data))

\* an attempt at matches that restarts at the start state on a missing transition
RECURSIVE MatchLoopRestart(_, _, _, _)
MatchLoopRestart(tr, start, current, data) ==
    IF data = <<>> THEN current
    ELSE IF <<current, Head(data)>> \notin DOMAIN tr
         THEN MatchLoopRestart(tr, start, start, Tail(data))
    ELSE MatchLoopRestart(tr, start, tr[<<current, Head(data)>>], Tail(data))

matches_restart(tr, acc, start, data) ==
    LET current == MatchLoopRestart(tr, start, start, data)
    IN  current \in DOMAIN acc /\ acc[current]

\* DfaMatcher::matches
matches(tr, acc, start, data) ==
    LET current == MatchLoop(tr, start, data)
    IN  /\ current # NoNode
        /\ current \in DOMAIN acc /\ acc[current]

\* PatternMatcher: the signatures it was constructed with.  (Its CnfGrammar is
\* built by the constructor and read by none of the inspection operations.)
SigChars     == {"a", "B"}
PayloadChars == {"A", "b"}
Signatures   == SeqsUpTo(SigChars, MaxSigChars)
SignatureLists == SeqsUpTo(Signatures, MaxSigs)
Payloads     == SeqsUpTo(PayloadChars, MaxPayloadLen)

\* main(): the signature list of the payload-inspection demo
malicious_patterns ==
    << <<"v", "i", "r", "u", "s">>,
       <<"m", "a", "l", "w", "a", "r", "e">>,
       <<"e", "x", "p", "l", "o", "i", "t">>,
       <<"r", "a", "n", "s", "o", "m">>,
       <<"<", "s", "c", "r", "i", "p", "t">>,
       <<"<", "/", "s", "c", "r", "i", "p", "t">>,
       <<"b", "a", "s", "e", "6", "4">>,
       <<"e", "v", "a", "l">>,
       <<"<", "i", "f", "r", "a", "m", "e">>,
       <<"'", ";", "SP", "O", "R", "SP", "1">>,
       <<"U", "N", "I", "O", "N", "SP", "S", "E", "L", "E", "C", "T">>,
       <<"D", "R", "O", "P", "SP", "T", "A", "B", "L", "E">>,
       <<"c", "m", "d", ".", "e", "x", "e">>,
       <<"b", "a", "s", "h", "SP", "-", "i">>,
       <<"r", "e", "v", "e", "r", "s", "e", "SP", "s", "h", "e", "l", "l">> >>

\* main(): the demo table, each payload with its expected label
test_cases ==
    << [payload |-> <<"G", "E", "T", "SP", "/", "i", "n", "d", "e", "x", ".", "h", "t", "m", "l", "SP", "H", "T", "T", "P", "/", "1", ".", "1">>,
        expected_malicious |-> FALSE],
       [payload |-> <<"G", "E", "T", "SP", "/", "a", "d", "m", "i", "n", "?", "i", "d", "=", "1", "SP", "O", "R", "SP", "1", "=", "1", "SP", "H", "T", "T", "P", "/", "1", ".", "1">>,
        expected_malicious |-> TRUE],
       [payload |-> <<"<", "s", "c", "r", "i", "p", "t", ">", "a", "l", "e", "r", "t", "(", "'", "x", "s", "s", "'", ")", "<", "/", "s", "c", "r", "i", "p", "t", ">">>,
        expected_malicious |-> TRUE],
       [payload |-> <<"c", "u", "r", "l", "SP", "h", "t", "t", "p", ":", "/", "/", "a", "t", "t", "a", "c", "k", "e", "r", ".", "c", "o", "m", "SP", "|", "SP", "b", "a", "s", "h">>,
        expected_malicious |-> TRUE],
       [payload |-> <<"b", "a", "s", "e", "6", "4", "SP", "e", "n", "c", "o", "d", "e", "d", "SP", "p", "a", "y", "l", "o", "a", "d", "SP", "h", "e", "r", "e">>,
        expected_malicious |-> TRUE],
       [payload |-> <<"N", "o", "r", "m", "a", "l", "SP", "u", "s", "e", "r", "SP", "a", "g", "e", "n", "t", "SP", "r", "e", "q", "u", "e", "s", "t">>,
        expected_malicious |-> FALSE] >>

DemoPayloads == {test_cases[k].payload : k \in DOMAIN test_cases}

PatternMatcher(patterns) == [null |-> FALSE, malicious_patterns_ |-> patterns]
NullMatcher == [null |-> TRUE, malicious_patterns_ |-> <<>>]

\* std::string::find(needle) from offset k: the 0-based offset of the first
\* occurrence, -1 for npos
RECURSIVE FindFrom(_, _, _)
FindFrom(hay, needle, k) ==
    IF k + Len(needle) > Len(hay) THEN -1
    ELSE IF SubSeq(hay, k + 1, k + Len(needle)) = needle THEN k
    ELSE FindFrom(hay, needle, k + 1)

\* matches_pattern comparing the payload with the signature as configured
matches_pattern_cased(data, pattern) ==
    FindFrom(LowerStr(data), pattern, 0) # -1

\* PatternMatcher::matches_pattern
matches_pattern(data, pattern) ==
    FindFrom(LowerStr(data), LowerStr(pattern), 0) # -1

\* PatternMatcher::has_malicious_pattern: the loop returns at the first match
RECURSIVE has_malicious_pattern(_, _)
has_malicious_pattern(patterns, data) ==
    IF patterns = <<>> THEN FALSE
    ELSE IF matches_pattern(data, Head(patterns)) THEN TRUE
    ELSE has_malicious_pattern(Tail(patterns), data)

\* PatternMatcher::get_matched_patterns
RECURSIVE get_matched_patterns(_, _)
get_matched_patterns(patterns, data) ==
    IF patterns = <<>> THEN <<>>
    ELSE (IF matches_pattern(data, Head(patterns)) THEN <<Head(patterns)>> ELSE <<>>)
         \o get_matched_patterns(Tail(patterns), data)

\* inspect_payload reporting a finding when no pattern matcher is set
inspect_payload_failclosed(pm, data) ==
    IF pm.null THEN TRUE
    ELSE has_malicious_pattern(pm.malicious_patterns_, data)

\* DfaMatcher::inspect_payload
inspect_payload(pm, data) ==
    IF pm.null THEN FALSE
    ELSE has_malicious_pattern(pm.malicious_patterns_, data)

\* DfaMatcher::get_payload_anomalies
get_payload_anomalies(pm, data) ==
    IF pm.null THEN <<>>
    ELSE get_matched_patterns(pm.malicious_patterns_, data)

DfaInit ==
    /\ start_state_ \in DfaStates
    /\ transitions_ = NoTransitions
    /\ accepting_ = NoAccepting
    /\ dfaOps = 0
    /\ matchData = NoText
    /\ matchResult = FALSE
    /\ pattern_matcher_ = NullMatcher
    /\ payload = NoText
    /\ inspectResult = FALSE
    /\ anomalies = <<>>

\* The driver holds at most one result (of matches or of an inspection), as
\* for the scan above.

AddTransition ==
    /\ dfaOps < MaxDfaOps /\ matchData = NoText /\ payload = NoText
    /\ \E from \in DfaStates, symbol \in DfaSymbols, to \in DfaStates :
           transitions_' = add_transition(transitions_, from, symbol, to)
    /\ dfaOps' = dfaOps + 1
    /\ UNCHANGED <<start_state_, accepting_, matchData, matchResult, pmVars, acVars, httpVars, dfabVars, pcapVars, srvVars, ctlVars>>

AddAcceptingState ==
    /\ dfaOps < MaxDfaOps /\ matchData = NoText /\ payload = NoText
    /\ \E s \in DfaStates : accepting_' = add_accepting_state(accepting_, s)
    /\ dfaOps' = dfaOps + 1
    /\ UNCHANGED <<start_state_, transitions_, matchData, matchResult, pmVars, acVars, httpVars, dfabVars, pcapVars, srvVars, ctlVars>>

Matches ==
    /\ matchData = NoText /\ payload = NoText
    /\ \E data \in DfaData :
        /\ matchData' = data
        /\ matchResult' = matches(transitions_, accepting_, start_state_, data)
    /\ UNCHANGED <<start_state_, transitions_, accepting_, dfaOps, pmVars, acVars, httpVars, dfabVars, pcapVars, srvVars, ctlVars>>

DropMatch ==
    /\ matchData # NoText
    /\ matchData' = NoText
    /\ matchResult' = FALSE
    /\ UNCHANGED <<start_state_, transitions_, accepting_, dfaOps, pmVars, acVars, httpVars, dfabVars, pcapVars, srvVars, ctlVars>>

\* set_pattern_matcher(PatternMatcher(patterns))
SetPatternMatcher ==
    /\ matchData = NoText /\ payload = NoText
    /\ \E patterns \in SignatureLists \cup {malicious_patterns} :
           pattern_matcher_' = PatternMatcher(patterns)
    /\ UNCHANGED <<start_state_, transitions_, accepting_, dfaOps, matchData, matchResult,
                   payload, inspectResult, anomalies, acVars, httpVars, dfabVars, pcapVars, srvVars, ctlVars>>

\* inspect_payload(data) and get_payload_anomalies(data) on one payload
InspectPayload ==
    /\ matchData = NoText /\ payload = NoText
    /\ \E data \in Payloads \cup DemoPayloads :
        /\ payload' = data
        /\ inspectResult' = inspect_payload(pattern_matcher_, data)
        /\ anomalies' = get_payload_anomalies(pattern_matcher_, data)
    /\ UNCHANGED <<start_state_, transitions_, accepting_, dfaOps, matchData, matchResult,
                   pattern_matcher_, acVars, httpVars, dfabVars, pcapVars, srvVars, ctlVars>>

DropInspect ==
    /\ payload # NoText
    /\ payload' = NoText
    /\ inspectResult' = FALSE
    /\ anomalies' = <<>>
    /\ UNCHANGED <<start_state_, transitions_, accepting_, dfaOps, matchData, matchResult,
                   pattern_matcher_, acVars, httpVars, dfabVars, pcapVars, srvVars, ctlVars>>

\* the DfaMatcher main() constructs: start state 0
DfaFresh == DfaInit /\ start_state_ = 0

-----------------------------------------------------------------------------
(* Character classes of <cctype>, C locale *)

IsUpper(c) == c \in UpperChars
IsAlpha(c) == c \in UpperChars \cup LowerChars
IsDigit(c) == c \in DigitChars
IsAlnum(c) == IsAlpha(c) \/ IsDigit(c)
IsSpace(c) == c \in SpaceChars

DigitVal(c) == CASE c = "0" -> 0 [] c = "1" -> 1 [] c = "2" -> 2 [] c = "9" -> 9

IntMax == 2147483647

-----------------------------------------------------------------------------
(* PDAEngine *)

isMethodChar(c)  == IsUpper(c)
isURIChar(c)     == IsAlnum(c) \/ c \in {"/", ".", "-", "_", "?", "=", "&", "%"}
isVersionChar(c) == IsAlnum(c) \/ c \in {".", "/"}

ContentLengthKey == <<"c","o","n","t","e","n","t","-","l","e","n","g","t","h">>

\* std::istringstream >> int: skip leading whitespace, an optional sign, then
\* at least one digit; stops at the first non-digit; fails on no digit or on
\* a value outside int.  [ok |-> ..., val |-> ...]
RECURSIVE SkipSpace(_)
SkipSpace(v) == IF v # <<>> /\ IsSpace(Head(v)) THEN SkipSpace(Tail(v)) ELSE v

\* the digits read so far: their value (while it fits an int), how many, and
\* whether the value has left the range of int ("min": it is exactly 2^31)
RECURSIVE ReadDigits(_, _)
ReadDigits(v, d) ==
    IF v # <<>> /\ IsDigit(Head(v))
    THEN LET x == DigitVal(Head(v))
         IN  ReadDigits(Tail(v),
                 IF d.range # "in" THEN [d EXCEPT !.count = @ + 1, !.range = "out"]
                 ELSE IF d.val = IntMax \div 10 /\ x = (IntMax % 10) + 1
                      THEN [d EXCEPT !.count = @ + 1, !.range = "min"]
                 ELSE IF d.val > (IntMax - x) \div 10
                      THEN [d EXCEPT !.count = @ + 1, !.range = "out"]
                 ELSE [val |-> d.val * 10 + x, count |-> d.count + 1, range |-> "in"])
    ELSE d

ExtractInt(value) ==
    LET v0   == SkipSpace(value)
        neg  == v0 # <<>> /\ Head(v0) = "-"
        v1   == IF v0 # <<>> /\ Head(v0) \in {"-", "+"} THEN Tail(v0) ELSE v0
        d    == ReadDigits(v1, [val |-> 0, count |-> 0, range |-> "in"])
    IN  IF d.count = 0 THEN [ok |-> FALSE, val |-> 0]
        ELSE IF d.range = "in" THEN [ok |-> TRUE, val |-> IF neg THEN 0 - d.val ELSE d.val]
        ELSE IF d.range = "min" /\ neg THEN [ok |-> TRUE, val |-> (0 - IntMax) - 1]
        ELSE [ok |-> FALSE, val |-> IF neg THEN (0 - IntMax) - 1 ELSE IntMax]

StackTop(st) == IF st = <<>> THEN "" ELSE st[Len(st)]

\* log(input, action): a trace record carrying the state at the time of the call
Log(p, input, action) ==
    [p EXCEPT !.trace = Append(@, [state |-> p.state, input |-> input,
                                   stackTop |-> StackTop(p.st), action |-> action])]

Epsilon == "eps"

pushMarker(p, m, action) ==
    Log([p EXCEPT !.st = Append(@, m)], Epsilon, <<action, " (push)">>)

popMarker(p, action) ==
    IF p.st # <<>> /\ StackTop(p.st) # "$"
    THEN Log([p EXCEPT !.st = SubSeq(@, 1, Len(@) - 1)], Epsilon, <<action, " (pop)">>)
    ELSE Log(p, Epsilon, <<action, " (pop failed)">>)

\* the object the constructor leaves
NewEngine ==
    [state |-> "START", st |-> <<"$">>, trace |-> <<>>,
     lastWasCR |-> FALSE, consecutiveCRLFs |-> 0,
     headers |-> [k \in {} |-> <<>>],
     currentHeaderName |-> <<>>, currentHeaderValue |-> <<>>,
     contentLengthRemaining |-> -1, bodyBytesConsumed |-> 0,
     i |-> 0, ret |-> "none"]

\* validate's entry without headers.clear()
ValidateEntry_keepHeaders(p) ==
    pushMarker([NewEngine EXCEPT !.ret = "running", !.headers = p.headers],
               "R", "start request (R)")

\* validate(), lines 59-73: reset every field, push the request marker
ValidateEntry(p) ==
    pushMarker([NewEngine EXCEPT !.ret = "running"], "R", "start request (R)")

\* an error branch that logs and sets ERROR but goes on with the loop
Reject_continue(p, c, action) ==
    [Log(p, c, <<action>>) EXCEPT !.state = "ERROR"]

\* an error branch that writes no trace record
Reject_silent(p, c, action) == [p EXCEPT !.state = "ERROR", !.ret = "false"]

\* an error branch: log, state = ERROR, return false
Reject(p, c, action) ==
    [Log(p, c, <<action>>) EXCEPT !.state = "ERROR", !.ret = "false"]

ClearCR(p) == [p EXCEPT !.lastWasCR = FALSE, !.consecutiveCRLFs = 0]

RECURSIVE TrimTrail(_)
TrimTrail(v) ==
    IF v # <<>> /\ v[Len(v)] \in {"SP", "TAB"} THEN TrimTrail(SubSeq(v, 1, Len(v) - 1)) ELSE v

RECURSIVE TrimSpaceTrail(_)
TrimSpaceTrail(v) ==
    IF v # <<>> /\ IsSpace(v[Len(v)]) THEN TrimSpaceTrail(SubSeq(v, 1, Len(v) - 1)) ELSE v

\* the second consecutive CRLF leaving the engine in HEADERS
EndOfHeaders_stay(p) == p

\* lines 193-213: the second consecutive CRLF in HEADERS
EndOfHeaders(p) ==
    LET p1 == Log([p EXCEPT !.state = "BODY"], Epsilon, <<"end of headers -> BODY">>)
    IN  IF ContentLengthKey \in DOMAIN p1.headers
        THEN LET len == ExtractInt(p1.headers[ContentLengthKey])
             IN  IF len.ok /\ len.val >= 0
                 THEN [p1 EXCEPT !.contentLengthRemaining = len.val]
                 ELSE [Log(p1, Epsilon, <<"invalid Content-Length">>)
                          EXCEPT !.state = "ERROR", !.ret = "false"]
        ELSE [p1 EXCEPT !.contentLengthRemaining = -1]

\* case HEADERS, lines 182-235
StepHeaders(p, c) ==
    IF c = "CR"
    THEN Log([p EXCEPT !.lastWasCR = TRUE], c, <<"maybe CR (headers)">>)
    ELSE IF c = "LF" /\ p.lastWasCR
    THEN LET p1 == Log([p EXCEPT !.consecutiveCRLFs = @ + 1], c, <<"CRLF (headers)">>)
             p2 == [p1 EXCEPT !.lastWasCR = FALSE]
         IN  IF p2.consecutiveCRLFs = 2 THEN EndOfHeaders(p2) ELSE p2
    ELSE LET p1 == ClearCR(p)
         IN  IF IsAlpha(c)
             THEN Log([p1 EXCEPT !.state = "HEADER_NAME",
                                 !.currentHeaderName = <<ToLower(c)>>,
                                 !.currentHeaderValue = <<>>],
                      c, <<"begin HEADER_NAME">>)
             ELSE Reject(p1, c, "invalid header start")

\* case HEADER_CR keeping the value a name already has
StepHeaderCR_firstwins(p, c) ==
    IF c = "LF" /\ p.lastWasCR
    THEN LET value == TrimTrail(p.currentHeaderValue)
             name  == p.currentHeaderName
             p1 == [p EXCEPT !.currentHeaderValue = value,
                             !.headers = [k \in DOMAIN @ \cup {name} |->
                                             IF k \in DOMAIN @ THEN @[k] ELSE value]]
             p2 == Log(p1, Epsilon, <<"store header: ", name, " -> ", value>>)
             p3 == Log([p2 EXCEPT !.state = "HEADERS"], c, <<"HEADER end -> HEADERS">>)
         IN  ClearCR(p3)
    ELSE Reject(p, c, "expected LF after CR in header")

\* case HEADER_CR, lines 289-310
StepHeaderCR(p, c) ==
    IF c = "LF" /\ p.lastWasCR
    THEN LET value == TrimTrail(p.currentHeaderValue)
             name  == p.currentHeaderName
             p1 == [p EXCEPT !.currentHeaderValue = value,
                             !.headers = [k \in DOMAIN @ \cup {name} |->
                                             IF k = name THEN value ELSE @[k]]]
             p2 == Log(p1, Epsilon, <<"store header: ", name, " -> ", value>>)
             p3 == Log([p2 EXCEPT !.state = "HEADERS"], c, <<"HEADER end -> HEADERS">>)
         IN  ClearCR(p3)
    ELSE Reject(p, c, "expected LF after CR in header")

\* case BODY counting no byte beyond the announced Content-Length
StepBody_capped(p, c) ==
    IF p.contentLengthRemaining >= 0 /\ p.bodyBytesConsumed >= p.contentLengthRemaining
    THEN ClearCR(Log(p, c, <<"BODY byte ", p.bodyBytesConsumed>>))
    ELSE LET p1 == [p EXCEPT !.bodyBytesConsumed = @ + 1]
         IN  ClearCR(Log(p1, c, <<"BODY byte ", p1.bodyBytesConsumed>>))

\* case BODY, lines 312-329
StepBody(p, c) ==
    LET p1 == [p EXCEPT !.bodyBytesConsumed = @ + 1]
        p2 == IF p.contentLengthRemaining >= 0
              THEN LET q == Log(p1, c, <<"BODY byte ", p1.bodyBytesConsumed>>)
                   IN  IF q.bodyBytesConsumed = q.contentLengthRemaining
                       THEN Log(q, Epsilon, <<"body complete (matched Content-Length)">>)
                       ELSE q
              ELSE Log(p1, c, <<"BODY byte (unknown length)">>)
    IN  ClearCR(p2)

\* the switch of the for loop, lines 82-340, for one character c
StepChar(p, c) ==
    CASE p.state = "START" ->
            IF isMethodChar(c)
            THEN ClearCR(Log([p EXCEPT !.state = "METHOD"], c, <<"begin METHOD">>))
            ELSE Reject(p, c, "expected METHOD")
      [] p.state = "METHOD" ->
            IF isMethodChar(c) THEN ClearCR(Log(p, c, <<"METHOD char">>))
            ELSE IF c = "SP"
            THEN ClearCR(Log([p EXCEPT !.state = "SP1"], c, <<"METHOD -> SP1">>))
            ELSE Reject(p, c, "invalid METHOD char")
      [] p.state = "SP1" ->
            IF isURIChar(c)
            THEN ClearCR(Log([p EXCEPT !.state = "URI"], c, <<"begin URI">>))
            ELSE Reject(p, c, "expected URI")
      [] p.state = "URI" ->
            IF isURIChar(c) THEN ClearCR(Log(p, c, <<"URI char">>))
            ELSE IF c = "SP"
            THEN ClearCR(Log([p EXCEPT !.state = "SP2"], c, <<"URI -> SP2">>))
            ELSE Reject(p, c, "invalid URI char")
      [] p.state = "SP2" ->
            IF isVersionChar(c)
            THEN ClearCR(Log([p EXCEPT !.state = "VERSION"], c, <<"begin VERSION">>))
            ELSE Reject(p, c, "expected VERSION")
      [] p.state = "VERSION" ->
            IF isVersionChar(c) THEN Log(p, c, <<"VERSION char">>)
            ELSE IF c = "CR"
            THEN [Log([p EXCEPT !.state = "REQUEST_LINE_CR"], c, <<"REQUEST_LINE_CR">>)
                    EXCEPT !.lastWasCR = TRUE]
            ELSE Reject(p, c, "invalid VERSION char")
      [] p.state = "REQUEST_LINE_CR" ->
            IF c = "LF"
            THEN [Log([p EXCEPT !.state = "HEADERS"], c, <<"REQUEST_LINE end -> HEADERS">>)
                    EXCEPT !.currentHeaderName = <<>>, !.currentHeaderValue = <<>>,
                           !.consecutiveCRLFs = 0, !.lastWasCR = FALSE]
            ELSE Reject(p, c, "expected LF after CR")
      [] p.state = "HEADERS" -> StepHeaders(p, c)
      [] p.state = "HEADER_NAME" ->
            IF c = ":"
            THEN ClearCR([Log([p EXCEPT !.state = "HEADER_COLON"], c,
                              <<"HEADER_NAME -> ':' -> HEADER_COLON">>)
                            EXCEPT !.currentHeaderName = TrimSpaceTrail(@)])
            ELSE IF IsAlnum(c) \/ c = "-"
            THEN ClearCR(Log([p EXCEPT !.currentHeaderName = Append(@, ToLower(c))],
                             c, <<"HEADER_NAME char">>))
            ELSE Reject(p, c, "invalid HEADER_NAME char")
      [] p.state = "HEADER_COLON" ->
            IF c = "SP"
            THEN [Log(p, c, <<"HEADER_COLON -> skip SPACE">>) EXCEPT !.lastWasCR = FALSE]
            ELSE IF c = "CR"
            THEN [Log([p EXCEPT !.currentHeaderValue = <<>>, !.state = "HEADER_CR",
                                !.lastWasCR = TRUE],
                      c, <<"HEADER_COLON -> CR (empty value)">>)
                    EXCEPT !.lastWasCR = TRUE]
            ELSE [Log([p EXCEPT !.state = "HEADER_VALUE",
                                !.currentHeaderValue = Append(@, c)],
                      c, <<"begin HEADER_VALUE">>)
                    EXCEPT !.lastWasCR = FALSE]
      [] p.state = "HEADER_VALUE" ->
            IF c = "CR"
            THEN Log([p EXCEPT !.state = "HEADER_CR", !.lastWasCR = TRUE],
                     c, <<"HEADER_VALUE -> CR">>)
            ELSE [Log([p EXCEPT !.currentHeaderValue = Append(@, c)],
                      c, <<"HEADER_VALUE char">>)
                    EXCEPT !.lastWasCR = FALSE]
      [] p.state = "HEADER_CR" -> StepHeaderCR(p, c)
      [] p.state = "BODY" -> StepBody(p, c)
      [] p.state = "ERROR" ->
            [Log(p, c, <<"in ERROR state">>) EXCEPT !.ret = "false"]
      [] OTHER -> Reject(p, c, "unhandled state")

\* acceptance that leaves the request marker on the stack
Accept_nopop(p, action) ==
    [Log(p, Epsilon, <<action>>) EXCEPT !.state = "ACCEPT", !.ret = "true"]

\* end-of-input acceptance, lines 343-380
Accept(p, action) ==
    [popMarker([Log(p, Epsilon, <<action>>) EXCEPT !.state = "ACCEPT"], "end request (R)")
        EXCEPT !.ret = "true"]

\* end-of-input acceptance with the body length compared by >= where the code
\* compares by ==
EndOfInput_atleast(p) ==
    IF p.state = "BODY"
    THEN IF p.contentLengthRemaining >= 0
         THEN IF p.bodyBytesConsumed >= p.contentLengthRemaining
              THEN Accept(p, "ACCEPT (body length matched)")
              ELSE [Log(p, Epsilon, <<"REJECT (body length mismatch)">>)
                      EXCEPT !.state = "ERROR", !.ret = "false"]
         ELSE Accept(p, "ACCEPT (EOF terminates body)")
    ELSE IF p.state = "HEADERS" /\ p.consecutiveCRLFs = 2
    THEN Accept(p, "ACCEPT (no body)")
    ELSE [Log(p, Epsilon, <<"REJECT (input ended in state other than BODY/HEADERS)">>)
            EXCEPT !.state = "ERROR", !.ret = "false"]

EndOfInput(p) ==
    IF p.state = "BODY"
    THEN IF p.contentLengthRemaining >= 0
         THEN IF p.bodyBytesConsumed = p.contentLengthRemaining
              THEN Accept(p, "ACCEPT (body length matched)")
              ELSE [Log(p, Epsilon, <<"REJECT (body length mismatch)">>)
                      EXCEPT !.state = "ERROR", !.ret = "false"]
         ELSE Accept(p, "ACCEPT (EOF terminates body)")
    ELSE IF p.state = "HEADERS" /\ p.consecutiveCRLFs = 2
    THEN Accept(p, "ACCEPT (no body)")
    ELSE [Log(p, Epsilon, <<"REJECT (input ended in state other than BODY/HEADERS)">>)
            EXCEPT !.state = "ERROR", !.ret = "false"]

-----------------------------------------------------------------------------
(* HttpPdaValidator *)

\* std::getline(stream, line) at stream position pos (characters consumed so
\* far): the characters up to the next LF (which is consumed, not stored) or
\* to the end of the stream.  It fails iff the stream is already at its end.
RECURSIVE LineEnd(_, _)
LineEnd(s, k) == IF k > Len(s) \/ s[k] = "LF" THEN k ELSE LineEnd(s, k + 1)

GetLine(s, pos) ==
    LET e == LineEnd(s, pos + 1)
    IN  [ok   |-> pos < Len(s),
         line |-> SubSeq(s, pos + 1, e - 1),
         next |-> IF e > Len(s) THEN Len(s) ELSE e]

\* operator>> on std::string: the whitespace-separated tokens of a line
RECURSIVE TokenEnd(_, _)
TokenEnd(s, k) == IF k > Len(s) \/ IsSpace(s[k]) THEN k ELSE TokenEnd(s, k + 1)

RECURSIVE Tokens(_)
Tokens(s) ==
    LET t == SkipSpace(s)
    IN  IF t = <<>> THEN <<>>
        ELSE LET e == TokenEnd(t, 1)
             IN  <<SubSeq(t, 1, e - 1)>> \o Tokens(SubSeq(t, e, Len(t)))

HTTP11 == <<"H", "T", "T", "P", "/", "1", ".", "1">>
HTTP10 == <<"H", "T", "T", "P", "/", "1", ".", "0">>

\* parse_request_line extracting only the method and the path, the version
\* being checked when there is one
parse_request_line_two(stack, line) ==
    LET toks == Tokens(line)
    IN  IF Len(toks) < 2 THEN [ok |-> FALSE, stack |-> stack]
        ELSE IF Len(toks) >= 3 /\ toks[3] # HTTP11 /\ toks[3] # HTTP10
        THEN [ok |-> FALSE, stack |-> stack]
        ELSE [ok |-> TRUE, stack |-> Append(stack, "R")]

\* parse_request_line: [ok, stack]
parse_request_line(stack, line) ==
    LET toks == Tokens(line)
    IN  IF Len(toks) < 3 THEN [ok |-> FALSE, stack |-> stack]
        ELSE IF toks[3] # HTTP11 /\ toks[3] # HTTP10 THEN [ok |-> FALSE, stack |-> stack]
        ELSE [ok |-> TRUE, stack |-> Append(stack, "R")]

is_header_continuation(line) ==
    IF line = <<>> THEN FALSE ELSE Head(line) \in {"SP", "TAB"}

\* std::string::find(':'): the 0-based index of the first ':', -1 for npos
RECURSIVE FindColon(_, _)
FindColon(line, k) ==
    IF k > Len(line) THEN -1
    ELSE IF line[k] = ":" THEN k - 1
    ELSE FindColon(line, k + 1)

\* parse_header_line accepting a continuation line on any non-empty stack
parse_header_line_anyTop(stack, line) ==
    IF is_header_continuation(line)
    THEN [ok |-> stack # <<>>, stack |-> stack]
    ELSE LET colon_pos == FindColon(line, 1)
         IN  IF colon_pos = -1 \/ colon_pos = 0
             THEN [ok |-> FALSE, stack |-> stack]
             ELSE [ok |-> TRUE, stack |-> Append(stack, "H")]

\* parse_header_line: [ok, stack]
parse_header_line(stack, line) ==
    IF is_header_continuation(line)
    THEN [ok |-> stack # <<>> /\ stack[Len(stack)] = "H", stack |-> stack]
    ELSE LET colon_pos == FindColon(line, 1)
         IN  IF colon_pos = -1 \/ colon_pos = 0
             THEN [ok |-> FALSE, stack |-> stack]
             ELSE [ok |-> TRUE, stack |-> Append(stack, "H")]

\* the validator before a call of validate
NewValidator ==
    [pc |-> "idle", pos |-> 0, stack_ |-> <<>>, saw_empty_line |-> FALSE, result |-> "none"]

\* validate, lines 8-20: clear the stack, read and parse the request line
ValidateRequestLine(v, s) ==
    LET g == GetLine(s, 0)
        r == parse_request_line(<<>>, g.line)
    IN  IF ~g.ok
        THEN [v EXCEPT !.pc = "returned", !.stack_ = <<>>, !.pos = 0,
                       !.saw_empty_line = FALSE, !.result = "Incomplete"]
        ELSE IF ~r.ok
        THEN [v EXCEPT !.pc = "returned", !.stack_ = r.stack, !.pos = g.next,
                       !.saw_empty_line = FALSE, !.result = "Invalid"]
        ELSE [v EXCEPT !.pc = "headers", !.stack_ = r.stack, !.pos = g.next,
                       !.saw_empty_line = FALSE, !.result = "none"]

\* the loop iteration without the removal of the trailing CR
ValidateHeaderLine_keepCR(v, s) ==
    LET g    == GetLine(s, v.pos)
        line == g.line
        r    == parse_header_line(v.stack_, line)
    IN  IF line = <<>>
        THEN [v EXCEPT !.pos = g.next, !.saw_empty_line = TRUE, !.pc = "after"]
        ELSE IF ~r.ok
        THEN [v EXCEPT !.pos = g.next, !.pc = "returned", !.result = "Invalid"]
        ELSE [v EXCEPT !.pos = g.next, !.stack_ = r.stack]

\* validate, lines 21-34: one iteration of the loop, getline having succeeded
ValidateHeaderLine(v, s) ==
    LET g    == GetLine(s, v.pos)
        line == IF g.line # <<>> /\ g.line[Len(g.line)] = "CR"
                THEN SubSeq(g.line, 1, Len(g.line) - 1) ELSE g.line
        r    == parse_header_line(v.stack_, line)
    IN  IF line = <<>>
        THEN [v EXCEPT !.pos = g.next, !.saw_empty_line = TRUE, !.pc = "after"]
        ELSE IF ~r.ok
        THEN [v EXCEPT !.pos = g.next, !.pc = "returned", !.result = "Invalid"]
        ELSE [v EXCEPT !.pos = g.next, !.stack_ = r.stack]

\* the return after the loop without the test of saw_empty_line
ValidateReturn_valid(v) ==
    [v EXCEPT !.pc = "returned", !.result = "Valid"]

\* validate, lines 36-40: after the loop
ValidateReturn(v) ==
    [v EXCEPT !.pc = "returned",
              !.result = IF ~v.saw_empty_line THEN "Incomplete" ELSE "Valid"]

-----------------------------------------------------------------------------
(* The messages the driver hands to the validators.  A message is assembled *)
(* from a request line, header lines, the line(s) closing the headers and a *)
(* body; every part carries its own line ending, so that malformed and      *)
(* truncated messages are among them.                                       *)

SP   == <<"SP">>
CRLF == <<"CR", "LF">>
LF   == <<"LF">>
GET  == <<"G", "E", "T">>
HTTP2 == <<"H", "T", "T", "P", "/", "2">>
HostName == <<"H", "o", "s", "t">>
CLName   == <<"C", "o", "n", "t", "e", "n", "t", "-", "L", "e", "n", "g", "t", "h">>

\* request lines the engine's grammar admits: method SP uri SP version CRLF
RL_11 == GET \o SP \o <<"/">> \o SP \o HTTP11 \o CRLF
RL_10 == GET \o SP \o <<"/">> \o SP \o HTTP10 \o CRLF
RL_2  == GET \o SP \o <<"/">> \o SP \o HTTP2 \o CRLF
WellFormedRequestLines == {RL_11, RL_10, RL_2}

\* request lines with fewer than three tokens separated by spaces
RL_NoVersion   == GET \o SP \o <<"/">> \o CRLF
RL_MethodOnly  == GET \o CRLF
RL_TrailingSP  == GET \o SP \o <<"/">> \o SP \o CRLF
RL_CRSeparated == GET \o SP \o <<"/">> \o <<"CR">> \o HTTP11 \o CRLF
RL_TabSeparated == GET \o SP \o <<"/">> \o <<"TAB">> \o HTTP11 \o CRLF
RL_Empty       == CRLF
RL_NoVersionCut == GET \o SP \o <<"/">>
LackVersion ==
    {RL_NoVersion, RL_MethodOnly, RL_TrailingSP, RL_CRSeparated, RL_TabSeparated,
     RL_Empty, RL_NoVersionCut}

\* other request lines
RL_LowerMethod == <<"g", "e", "t">> \o SP \o <<"/">> \o SP \o HTTP11 \o CRLF
RL_BareLF      == GET \o SP \o <<"/">> \o SP \o HTTP11 \o LF
RL_Cut         == GET \o SP \o <<"/">> \o SP \o HTTP11
RL_None        == <<>>
OtherRequestLines == {RL_LowerMethod, RL_BareLF, RL_Cut, RL_None}

\* header lines 'name: value' CRLF
H_Host == HostName \o <<":">> \o SP \o <<"x">> \o CRLF
H_CL2  == CLName \o <<":">> \o SP \o <<"2">> \o CRLF
H_cl1  == LowerStr(CLName) \o <<":">> \o SP \o <<"1">> \o CRLF
H_CL0  == CLName \o <<":">> \o SP \o <<"0">> \o CRLF
H_CLx  == CLName \o <<":">> \o SP \o <<"x">> \o CRLF

\* Content-Length lines whose value is no non-negative decimal integer: empty,
\* negative, digits followed by another character, out of the range of int
H_CLempty == CLName \o <<":">> \o CRLF
H_CLneg   == CLName \o <<":">> \o SP \o <<"-", "1">> \o CRLF
H_CL2x    == CLName \o <<":">> \o SP \o <<"2", "x">> \o CRLF
H_CLbig   == CLName \o <<":">> \o SP \o [k \in 1..10 |-> "9"] \o CRLF
MalformedLengthHeaders == {H_CLx, H_CLempty, H_CLneg, H_CL2x, H_CLbig}

\* a header line whose value has two leading spaces and a trailing space and tab
H_HostPadded == HostName \o <<":">> \o SP \o SP \o <<"b">> \o SP \o <<"TAB">> \o CRLF
OrdinaryHeaders   == {H_Host, H_CL2, H_cl1}
WellFormedHeaders == {H_Host, H_CL2, H_cl1, H_CL0}

\* a last header line of another kind
H_NoColon      == HostName \o CRLF
H_NoName       == <<":">> \o SP \o <<"x">> \o CRLF
H_Continuation == SP \o <<"x">> \o CRLF
H_EmptyValue   == HostName \o <<":">> \o CRLF
H_BareLF       == HostName \o <<":">> \o SP \o <<"x">> \o LF
H_Cut          == HostName \o <<":">> \o SP \o <<"x">>
H_NameCut      == HostName
\* a line that begins with ':' and has a second ':' further on
H_SecondColon  == <<":", "x", ":">> \o CRLF
LastHeaders ==
    {<<>>, H_SecondColon, H_CL0, H_CLx, H_CLempty, H_CLneg, H_CL2x, H_CLbig, H_HostPadded, H_NoColon, H_NoName, H_Continuation, H_EmptyValue, H_BareLF,
     H_Cut, H_NameCut}

Blanks == {<<>>, CRLF, CRLF \o CRLF, LF}
Bodies == {<<>>, <<"a">>, <<"a", "b">>, <<"a", "b", "c">>}

RECURSIVE Concat(_)
Concat(ss) == IF ss = <<>> THEN <<>> ELSE Head(ss) \o Concat(Tail(ss))

Shape(rl, hs, last, blank, body) ==
    [rl |-> rl, hs |-> hs, last |-> last, blank |-> blank, body |-> body]

Shapes ==
    {Shape(RL_11, hs, last, blank, body) :
        hs \in SeqsUpTo(OrdinaryHeaders, MaxHeaders), last \in LastHeaders,
        blank \in Blanks, body \in Bodies}
    \cup
    {Shape(rl, hs, <<>>, blank, body) :
        rl \in {RL_10, RL_2} \cup LackVersion \cup OtherRequestLines,
        hs \in {<<>>, <<H_Host>>, <<H_CL2>>}, blank \in Blanks, body \in {<<>>, <<"a", "b">>}}

Assemble(sh) == sh.rl \o Concat(sh.hs) \o sh.last \o sh.blank \o sh.body

HttpInit ==
    /\ shape \in Shapes
    /\ msg = Assemble(shape)
    /\ phase = "engine"
    /\ pda = NewEngine
    /\ hv = NewValidator
    /\ calls = 0

\* PDAEngine::validate(msg) is entered
PdaBegin ==
    /\ phase = "engine" /\ pda.ret = "none"
    /\ pda' = ValidateEntry(pda)
    /\ UNCHANGED <<msg, shape, phase, hv, calls, acVars, dfaVars, dfabVars, pcapVars, srvVars, ctlVars>>

\* one iteration of the for loop: the character msg[i] is consumed
PdaStep ==
    /\ phase = "engine" /\ pda.ret = "running" /\ pda.i < Len(msg)
    /\ LET p == StepChar(pda, msg[pda.i + 1])
       IN  /\ pda' = IF p.ret = "running" THEN [p EXCEPT !.i = @ + 1] ELSE p
           /\ phase' = IF p.ret = "running" THEN phase ELSE "outer"
    /\ UNCHANGED <<msg, shape, hv, calls, acVars, dfaVars, dfabVars, pcapVars, srvVars, ctlVars>>

\* the input is exhausted: acceptance is decided and validate returns
PdaFinish ==
    /\ phase = "engine" /\ pda.ret = "running" /\ pda.i = Len(msg)
    /\ pda' = EndOfInput(pda)
    /\ phase' = "outer"
    /\ UNCHANGED <<msg, shape, hv, calls, acVars, dfaVars, dfabVars, pcapVars, srvVars, ctlVars>>

\* HttpPdaValidator::validate(msg) is entered and reads the request line
HvRequestLine ==
    /\ phase = "outer" /\ hv.pc = "idle"
    /\ hv' = ValidateRequestLine(hv, msg)
    /\ phase' = IF hv'.pc = "returned" THEN "done" ELSE phase
    /\ UNCHANGED <<msg, shape, pda, calls, acVars, dfaVars, dfabVars, pcapVars, srvVars, ctlVars>>

\* one iteration of the header loop
HvHeaderLine ==
    /\ phase = "outer" /\ hv.pc = "headers" /\ GetLine(msg, hv.pos).ok
    /\ hv' = ValidateHeaderLine(hv, msg)
    /\ phase' = IF hv'.pc = "returned" THEN "done" ELSE phase
    /\ UNCHANGED <<msg, shape, pda, calls, acVars, dfaVars, dfabVars, pcapVars, srvVars, ctlVars>>

\* the loop is left (an empty line, or the stream is at its end)
HvReturn ==
    /\ phase = "outer"
    /\ hv.pc = "after" \/ (hv.pc = "headers" /\ ~GetLine(msg, hv.pos).ok)
    /\ hv' = ValidateReturn(hv)
    /\ phase' = "done"
    /\ UNCHANGED <<msg, shape, pda, calls, acVars, dfaVars, dfabVars, pcapVars, srvVars, ctlVars>>

\* Messages given one after another to the same two validator objects: an
\* accepted message with a body of the declared length, one with a body of
\* unknown length, messages that fail at the first character, inside a header
\* name and on a body length, the empty message, and messages on which the two
\* validators differ.
RepeatShapes ==
    {Shape(RL_11, <<H_CL2>>, <<>>, CRLF \o CRLF, <<"a", "b">>),
     Shape(RL_11, <<>>, <<>>, CRLF \o CRLF, <<"a">>),
     Shape(RL_11, <<H_cl1>>, <<>>, CRLF \o CRLF, <<"a", "b">>),
     Shape(RL_11, <<H_Host>>, H_NameCut, <<>>, <<>>),
     Shape(RL_11, <<H_Host>>, <<>>, CRLF, <<>>),
     Shape(RL_11, <<>>, H_Continuation, CRLF, <<>>),
     Shape(RL_LowerMethod, <<>>, <<>>, CRLF, <<>>),
     Shape(RL_None, <<>>, <<>>, <<>>, <<>>)}

HttpInitRepeat ==
    /\ shape \in RepeatShapes
    /\ msg = Assemble(shape)
    /\ phase = "engine"
    /\ pda = NewEngine
    /\ hv = NewValidator
    /\ calls = 0

\* both validate calls have returned; the driver takes another message for the
\* same two objects, which keep their fields (the loop index, the stream and
\* saw_empty_line are locals of the calls)
NextMessage ==
    /\ phase = "done" /\ calls + 1 < MaxCalls
    /\ \E sh \in RepeatShapes :
        /\ shape' = sh
        /\ msg' = Assemble(sh)
    /\ phase' = "engine"
    /\ pda' = [pda EXCEPT !.ret = "none", !.i = 0]
    /\ hv' = [hv EXCEPT !.pc = "idle", !.pos = 0, !.saw_empty_line = FALSE, !.result = "none"]
    /\ calls' = calls + 1
    /\ UNCHANGED <<acVars, dfaVars, dfabVars, pcapVars, srvVars, ctlVars>>

HttpIdle ==
    /\ msg = <<>> /\ shape = Shape(<<>>, <<>>, <<>>, <<>>, <<>>)
    /\ phase = "done" /\ pda = NewEngine /\ hv = NewValidator /\ calls = 0

-----------------------------------------------------------------------------
(* PacketReader *)

MAX_PACKET_SIZE == 65535

\* the two magic numbers parsePcapHeader accepts, as the four bytes of the file
PCAP_MAGIC         == <<212, 195, 178, 161>>
PCAP_MAGIC_SWAPPED == <<161, 178, 195, 212>>

\* the characters of codes 32..126 (SP the space, DQ the double quote, BSL the
\* backslash, BQ the backquote)
AsciiPrintable ==
    << "SP", "!", "DQ", "#", "$", "%", "&", "'", "(", ")", "*", "+", ",", "-", ".", "/",
       "0", "1", "2", "3", "4", "5", "6", "7", "8", "9", ":", ";", "<", "=", ">", "?",
       "@", "A", "B", "C", "D", "E", "F", "G", "H", "I", "J", "K", "L", "M", "N", "O",
       "P", "Q", "R", "S", "T", "U", "V", "W", "X", "Y", "Z", "[", "BSL", "]", "^", "_",
       "BQ", "a", "b", "c", "d", "e", "f", "g", "h", "i", "j", "k", "l", "m", "n", "o",
       "p", "q", "r", "s", "t", "u", "v", "w", "x", "y", "z", "{", "|", "}", "~" >>

HexDigits == <<"0", "1", "2", "3", "4", "5", "6", "7", "8", "9", "a", "b", "c", "d", "e", "f">>

\* PacketReader::bytesToHex: two lower-case digits per byte
bytesToHex(data) ==
    [k \in 1..(2 * Len(data)) |->
        LET byte == data[(k + 1) \div 2]
        IN  HexDigits[(IF k % 2 = 1 THEN byte \div 16 ELSE byte % 16) + 1]]

\* PacketReader::bytesToAscii: std::isprint bytes as they are, '.' for the rest
bytesToAscii(data) ==
    [k \in 1..Len(data) |->
        IF data[k] >= 32 /\ data[k] <= 126 THEN AsciiPrintable[data[k] - 31] ELSE "."]

\* PacketReader::parsePcapHeader on the first bytes of the file
parsePcapHeader(header) ==
    /\ Len(header) >= 4
    /\ SubSeq(header, 1, 4) \in {PCAP_MAGIC, PCAP_MAGIC_SWAPPED}
    /\ Len(header) >= 24

\* PacketReader::isValidTcpPacket (data[k] of the code is data[k + 1] here)
isValidTcpPacket(data, length) ==
    IF length < 40 THEN FALSE
    ELSE LET version == data[1] \div 16
         IN  IF version # 4 /\ version # 6 THEN FALSE
             ELSE IF version = 4 THEN data[10] = 6
             ELSE data[7] = 6

\* PacketReader::findTcpPayloadStart
findTcpPayloadStart(packetData, packetLength) ==
    LET version == packetData[1] \div 16
        ipHeaderLen == IF version = 4 THEN (packetData[1] % 16) * 4 ELSE 40
        tcpHeaderStart == ipHeaderLen
    IN  IF version # 4 /\ version # 6 THEN packetLength
        ELSE IF version = 4 /\ (ipHeaderLen < 20 \/ ipHeaderLen > packetLength) THEN packetLength
        ELSE IF version = 6 /\ ipHeaderLen > packetLength THEN packetLength
        ELSE IF tcpHeaderStart + 20 > packetLength THEN packetLength
        ELSE LET tcpDataOffset == packetData[tcpHeaderStart + 12 + 1] \div 16
                 tcpHeaderLen == tcpDataOffset * 4
                 payloadStart == tcpHeaderStart + tcpHeaderLen
             IN  IF payloadStart > packetLength THEN packetLength ELSE payloadStart

\* ---- the indices (from 0) at which the three functions read the buffer
\* isValidTcpPacket: data[0], then data[9] or data[6]
ReadsOfIsValidTcpPacket(data, length) ==
    IF length < 40 THEN {}
    ELSE LET version == data[1] \div 16
         IN  {0} \cup (IF version = 4 THEN {9} ELSE IF version = 6 THEN {6} ELSE {})

\* findTcpPayloadStart reading the data offset without the test of line 170
ReadsOfFindTcpPayloadStart_unguarded(packetData, packetLength) ==
    LET version == packetData[1] \div 16
        ipHeaderLen == IF version = 4 THEN (packetData[1] % 16) * 4 ELSE 40
        tcpHeaderStart == ipHeaderLen
    IN  IF version # 4 /\ version # 6 THEN {0}
        ELSE IF version = 4 /\ (ipHeaderLen < 20 \/ ipHeaderLen > packetLength) THEN {0}
        ELSE IF version = 6 /\ ipHeaderLen > packetLength THEN {0}
        ELSE {0, tcpHeaderStart + 12}

\* findTcpPayloadStart: packetData[0], and packetData[tcpHeaderStart + 12] when
\* line 175 is reached
ReadsOfFindTcpPayloadStart(packetData, packetLength) ==
    LET version == packetData[1] \div 16
        ipHeaderLen == IF version = 4 THEN (packetData[1] % 16) * 4 ELSE 40
        tcpHeaderStart == ipHeaderLen
    IN  IF version # 4 /\ version # 6 THEN {0}
        ELSE IF version = 4 /\ (ipHeaderLen < 20 \/ ipHeaderLen > packetLength) THEN {0}
        ELSE IF version = 6 /\ ipHeaderLen > packetLength THEN {0}
        ELSE IF tcpHeaderStart + 20 > packetLength THEN {0}
        ELSE {0, tcpHeaderStart + 12}

\* extractTcpPayload: the reads of the two functions it calls, and the bytes
\* packetData + payloadStart up to packetData + packetLength it copies
ReadsOfExtractTcpPayload(packetData, packetLength) ==
    IF ~isValidTcpPacket(packetData, packetLength)
    THEN ReadsOfIsValidTcpPacket(packetData, packetLength)
    ELSE LET payloadStart == findTcpPayloadStart(packetData, packetLength)
         IN  ReadsOfIsValidTcpPacket(packetData, packetLength)
                 \cup ReadsOfFindTcpPayloadStart(packetData, packetLength)
                 \cup (IF payloadStart >= packetLength THEN {}
                       ELSE payloadStart .. (packetLength - 1))

\* a default-constructed Packet with the three fields extractTcpPayload sets first
EmptyPacket(id, timestamp) ==
    [packetId |-> id, payloadBytes |-> <<>>, payloadHex |-> <<>>, payloadAscii |-> <<>>,
     payloadLength |-> 0, timestamp |-> timestamp]

\* extractTcpPayload numbering every packet 0
extractTcpPayload_unnumbered(packetData, packetLength, id, timestamp) ==
    LET payloadStart == findTcpPayloadStart(packetData, packetLength)
        bytes == SubSeq(packetData, payloadStart + 1, packetLength)
    IN  IF ~isValidTcpPacket(packetData, packetLength) \/ payloadStart >= packetLength
        THEN EmptyPacket(0, timestamp)
        ELSE [packetId |-> 0, payloadBytes |-> bytes, payloadHex |-> bytesToHex(bytes),
              payloadAscii |-> bytesToAscii(bytes),
              payloadLength |-> packetLength - payloadStart, timestamp |-> timestamp]

\* PacketReader::extractTcpPayload
extractTcpPayload(packetData, packetLength, id, timestamp) ==
    IF ~isValidTcpPacket(packetData, packetLength) THEN EmptyPacket(id, timestamp)
    ELSE LET payloadStart == findTcpPayloadStart(packetData, packetLength)
         IN  IF payloadStart >= packetLength THEN EmptyPacket(id, timestamp)
             ELSE LET payloadLen == packetLength - payloadStart
                      bytes == SubSeq(packetData, payloadStart + 1, packetLength)
                  IN  IF payloadLen > 0
                      THEN [packetId |-> id, payloadBytes |-> bytes,
                            payloadHex |-> bytesToHex(bytes),
                            payloadAscii |-> bytesToAscii(bytes),
                            payloadLength |-> payloadLen, timestamp |-> timestamp]
                      ELSE EmptyPacket(id, timestamp)

\* ---- capture files the reader is given
\* a frame of `length` bytes: byte k (counted from 0) is k % 256 unless `set` names it
Frame(length, set) ==
    [k \in 1..length |-> IF (k - 1) \in DOMAIN set THEN set[k - 1] ELSE (k - 1) % 256]

\* IPv4 with header length ihl words, protocol TCP, TCP data offset off words
Ipv4Tcp(length, ihl, off) ==
    Frame(length, (0 :> (64 + ihl)) @@ (9 :> 6) @@ ((ihl * 4 + 12) :> (off * 16)))
Ipv4Udp(length) == Frame(length, (0 :> 69) @@ (9 :> 17))
Ipv6Tcp(length, off) == Frame(length, (0 :> 96) @@ (6 :> 6) @@ (52 :> (off * 16)))

\* what the loop meets at one packet record: the timestamp and captured length
\* of its 16-byte header, and the bytes the read of the packet data then gets
\* (all incl_len of them, or fewer when the file ends first)
Record(ts, incl_len, data) == [timestamp |-> ts, incl_len |-> incl_len, data |-> data]
Whole(ts, frame) == Record(ts, Len(frame), frame)
Truncated(rec) == rec.incl_len > 0 /\ rec.incl_len <= MAX_PACKET_SIZE /\ Len(rec.data) < rec.incl_len

CaptureRecords ==
    { Whole(7, Ipv4Tcp(44, 5, 5)),      \* four payload bytes
      Whole(8, Ipv4Tcp(40, 5, 5)),      \* TCP segment without payload
      Whole(7, Ipv4Udp(44)),            \* not TCP
      Whole(9, Ipv6Tcp(61, 5)),         \* one payload byte
      Whole(7, Ipv4Tcp(41, 5, 0)),      \* data offset 0
      Whole(7, Ipv4Tcp(44, 15, 5)),     \* IP header leaves no room for a TCP header
      Whole(7, Ipv4Tcp(44, 8, 5)),      \* IP header leaves 12 bytes, no TCP header
      Whole(7, Ipv4Tcp(44, 5, 15)),     \* data offset past the end
      Whole(7, Ipv4Tcp(20, 5, 5)),      \* shorter than the two headers
      Record(7, 0, <<>>),               \* incl_len 0
      Record(7, MAX_PACKET_SIZE + 1, <<>>),             \* incl_len too large
      Record(7, 44, SubSeq(Ipv4Tcp(44, 5, 5), 1, 30)) } \* file ends inside the data

GoodHeader(magic) == magic \o [k \in 1..20 |-> 0]

CaptureFile(exists, header, records) ==
    [exists |-> exists, header |-> header, records |-> records]

\* a record whose data is cut short is the last of its file
CaptureFiles ==
    {CaptureFile(TRUE, GoodHeader(PCAP_MAGIC), rs) :
        rs \in {f \in SeqsUpTo(CaptureRecords, MaxRecords) :
                   \A k \in DOMAIN f : Truncated(f[k]) => k = Len(f)}}
    \cup {CaptureFile(TRUE, GoodHeader(PCAP_MAGIC_SWAPPED), <<Whole(7, Ipv4Tcp(44, 5, 5))>>),
          CaptureFile(TRUE, GoodHeader(<<10, 13, 13, 10>>), <<Whole(7, Ipv4Tcp(44, 5, 5))>>),
          CaptureFile(TRUE, PCAP_MAGIC, <<>>),
          CaptureFile(FALSE, <<>>, <<>>)}

NoFile == CaptureFile(FALSE, <<>>, <<>>)

PcapInit ==
    /\ pcapFile = NoFile
    /\ filePos = 0
    /\ packetId = 0
    /\ packets = <<>>
    /\ readerPc = "idle"

\* readPcapFile up to the loop: fopen, parsePcapHeader, packetId = 0
ReadPcapFile ==
    /\ readerPc = "idle"
    /\ \E f \in CaptureFiles :
        /\ pcapFile' = f
        /\ readerPc' = IF f.exists /\ parsePcapHeader(f.header) THEN "loop" ELSE "returned"
    /\ filePos' = 0
    /\ packetId' = 0
    /\ packets' = <<>>
    /\ UNCHANGED <<acVars, dfaVars, httpVars, dfabVars, srvVars, ctlVars>>

\* one iteration of the while loop: the header read succeeds
ReadRecord ==
    /\ readerPc = "loop"
    /\ filePos < Len(pcapFile.records)
    /\ LET rec == pcapFile.records[filePos + 1]
           incl_len == rec.incl_len
           packet == extractTcpPayload(rec.data, incl_len, packetId, rec.timestamp)
       IN  /\ filePos' = filePos + 1
           /\ IF incl_len = 0 \/ incl_len > MAX_PACKET_SIZE
              THEN UNCHANGED <<packetId, packets, readerPc>>
              ELSE IF Len(rec.data) < incl_len
              THEN /\ readerPc' = "returned"
                   /\ UNCHANGED <<packetId, packets>>
              ELSE /\ packets' = IF packet.payloadLength > 0
                                 THEN Append(packets, packet) ELSE packets
                   /\ packetId' = packetId + 1
                   /\ UNCHANGED readerPc
    /\ UNCHANGED <<pcapFile, acVars, dfaVars, httpVars, dfabVars, srvVars, ctlVars>>

\* the header read fails at the end of the file: fclose, return packets
ReadEnd ==
    /\ readerPc = "loop"
    /\ filePos = Len(pcapFile.records)
    /\ readerPc' = "returned"
    /\ UNCHANGED <<pcapFile, filePos, packetId, packets, acVars, dfaVars, httpVars, dfabVars, srvVars, ctlVars>>

\* the caller is done with the returned vector
DropPackets ==
    /\ readerPc = "returned"
    /\ pcapFile' = NoFile
    /\ filePos' = 0
    /\ packetId' = 0
    /\ packets' = <<>>
    /\ readerPc' = "idle"
    /\ UNCHANGED <<acVars, dfaVars, httpVars, dfabVars, srvVars, ctlVars>>

-----------------------------------------------------------------------------
\* ---- readPcapFile as one call
\* one iteration of the while loop on the record rec;
\* st = [packetId, packets, stop]
LoopBody(st, rec) ==
    LET packet == extractTcpPayload(rec.data, rec.incl_len, st.packetId, rec.timestamp)
    IN  IF rec.incl_len = 0 \/ rec.incl_len > MAX_PACKET_SIZE THEN st
        ELSE IF Len(rec.data) < rec.incl_len THEN [st EXCEPT !.stop = TRUE]
        ELSE [st EXCEPT !.packets = IF packet.payloadLength > 0
                                    THEN Append(@, packet) ELSE @,
                        !.packetId = @ + 1]

RECURSIVE ReadLoop(_, _, _)
ReadLoop(records, pos, st) ==
    IF st.stop \/ pos >= Len(records) THEN st.packets
    ELSE ReadLoop(records, pos + 1, LoopBody(st, records[pos + 1]))

\* PacketReader::readPcapFile on a file with the contents f
readPcapFile(f) ==
    IF ~f.exists \/ ~parsePcapHeader(f.header) THEN <<>>
    ELSE ReadLoop(f.records, 0, [packetId |-> 0, packets |-> <<>>, stop |-> FALSE])

-----------------------------------------------------------------------------
(* The API server *)

Main     == 0           \* the thread of main()
NoThread == -1          \* g_dataMutex is free
Threads  == 1..MaxThreads

\* what loadPatterns returns for the patterns file: no category (file missing
\* or unreadable), or the categories in key order with their patterns
PatternFiles ==
    { <<>>,
      << <<"malware", << <<"a", "b">> >> >>, <<"xss", << <<"B">> >> >> >> }

\* PatternsLoader::flattenPatterns
RECURSIVE flattenPatterns(_)
flattenPatterns(patternMap) ==
    IF patternMap = <<>> THEN <<>>
    ELSE Head(patternMap)[2] \o flattenPatterns(Tail(patternMap))

\* PatternsLoader::toJson: one member per category
toJson(patternMap) == patternMap

\* AhoCorasick::exportToJson (the two arrays as sets)
ac_exportToJson(t) ==
    IF t.root = NoNode THEN [nodes |-> {}, edges |-> {}]
    ELSE [nodes |-> {[id |-> n,
                      fail |-> IF t.failLink[n] = NoNode THEN 0 ELSE t.failLink[n],
                      output |-> t.output[n]] : n \in DOMAIN t.children},
          edges |-> UNION {{[from |-> n, input |-> c, to |-> t.children[n][c]] :
                               c \in DOMAIN t.children[n]} : n \in DOMAIN t.children}]

\* DFABuilder::exportToJson (the arrays as sets)
dfa_exportToJson(b) ==
    [states |-> DOMAIN b.states,
     start |-> b.startState,
     accept |-> {s \in DOMAIN b.states : b.states[s].isAccepting},
     transitions |-> UNION {{[from |-> s, input |-> c, to |-> b.states[s].transitions[c]] :
                               c \in DOMAIN b.states[s].transitions} : s \in DOMAIN b.states}]

\* ---- POST /scan, lines 95-125
HexValue(c) ==
    CASE c = "0" -> 0 [] c = "1" -> 1 [] c = "2" -> 2 [] c = "3" -> 3 [] c = "4" -> 4
      [] c = "5" -> 5 [] c = "6" -> 6 [] c = "7" -> 7 [] c = "8" -> 8 [] c = "9" -> 9
      [] c \in {"a", "A"} -> 10 [] c \in {"b", "B"} -> 11 [] c \in {"c", "C"} -> 12
      [] c \in {"d", "D"} -> 13 [] c \in {"e", "E"} -> 14 [] c \in {"f", "F"} -> 15
      [] OTHER -> -1

\* std::stoi(hexByte, nullptr, 16) on two characters that are neither white
\* space, a sign nor a prefix: the value of the leading hex digits, -1 when it
\* throws because there is none
StoiHex(hexByte) ==
    IF HexValue(hexByte[1]) < 0 THEN -1
    ELSE IF HexValue(hexByte[2]) < 0 THEN HexValue(hexByte[1])
    ELSE 16 * HexValue(hexByte[1]) + HexValue(hexByte[2])

\* (char) of a byte value below 128
Chr(b) ==
    CASE b >= 32 /\ b <= 126 -> AsciiPrintable[b - 31]
      [] b = 9 -> "TAB" [] b = 10 -> "LF" [] b = 13 -> "CR"

\* the loop of lines 109-116 from index i on; l = the locals of the handler
RECURSIVE HexLoop(_, _, _)
HexLoop(payloadStr, i, l) ==
    IF i >= Len(payloadStr) \/ l.thrown THEN l
    ELSE IF i + 1 < Len(payloadStr)
    THEN LET v == StoiHex(SubSeq(payloadStr, i + 1, i + 2))
         IN  IF v < 0 THEN [l EXCEPT !.thrown = TRUE]
             ELSE HexLoop(payloadStr, i + 2,
                          [l EXCEPT !.textToScan = Append(@, Chr(v)),
                                    !.payloadAscii =
                                        Append(@, IF v >= 32 /\ v <= 126 THEN Chr(v) ELSE ".")])
    ELSE HexLoop(payloadStr, i + 2, l)

\* the loop of lines 120-124: two hex digits appended per character
RECURSIVE AsciiLoop(_, _)
AsciiLoop(rest, l) ==
    IF rest = <<>> THEN l
    ELSE AsciiLoop(Tail(rest),
                   [l EXCEPT !.payloadHex = @ \o bytesToHex(<<CharCode(Head(rest))>>)])

\* lines 102-125: the three strings handed to scan
ScanLocals(payloadStr, isHex) ==
    LET l == [textToScan |-> payloadStr, payloadHex |-> payloadStr, payloadAscii |-> <<>>,
              thrown |-> FALSE]
    IN  IF isHex THEN HexLoop(payloadStr, 0, l)
        ELSE AsciiLoop(payloadStr, [l EXCEPT !.payloadAscii = payloadStr])

\* the response of /scan and one element of the response of /scan-pcap
ScanJson(result) ==
    [packetId |-> result.packetId, payloadHex |-> result.payloadHex,
     payloadAscii |-> result.payloadAscii, matches |-> result.matches]

\* ---- requests
\* bodies posted to /scan: text, hex of "aB", hex with an odd digit left over,
\* hex that std::stoi rejects, hex of a line feed and "A".  (No byte above 127:
\* std::isprint of a negative char is undefined.)
ScanBody(payloadStr, isHex) == [payload |-> payloadStr, isHex |-> isHex, packetId |-> 1]
ScanBodies ==
    { ScanBody(<<"a", "B">>, FALSE),
      ScanBody(<<"6", "1", "4", "2">>, TRUE),
      ScanBody(<<"6", "1", "4">>, TRUE),
      ScanBody(<<"g", "1">>, TRUE),
      ScanBody(<<"0", "a", "4", "1">>, TRUE) }

\* capture files uploaded to /scan-pcap: one with the payload "@AB", one
\* whose payload "()*+" matches nothing
UploadBodies ==
    { CaptureFile(TRUE, GoodHeader(PCAP_MAGIC), <<Whole(7, Ipv4Tcp(67, 11, 5))>>),
      CaptureFile(TRUE, GoodHeader(PCAP_MAGIC), <<Whole(8, Ipv4Tcp(44, 5, 5))>>) }

IdleWorker ==
    [pc |-> "idle", route |-> "", body |-> NoFile,
     payloadStr |-> <<>>, isHex |-> FALSE, packetId |-> 0,
     textToScan |-> <<>>, payloadHex |-> <<>>, payloadAscii |-> <<>>,
     packets |-> <<>>, status |-> 0, response |-> <<>>]

SrvInit ==
    /\ g_patterns = <<>>
    /\ g_dataMutex = NoThread
    /\ serverPc = "start"
    /\ uploaded = NoFile
    /\ worker = [t \in Threads |-> IdleWorker]

\* std::lock_guard on a free mutex
lock_guard_unchecked(m) == TRUE

\* std::lock_guard<std::mutex> lock(g_dataMutex) can be constructed
lock_guard(m) == m = NoThread

\* the automaton fields of g_acAutomaton and g_dfaBuilder
SetAc(t) ==
    /\ root' = t.root
    /\ nextNodeId' = t.nextNodeId
    /\ children' = t.children
    /\ failLink' = t.failLink
    /\ output' = t.output

\* initializeAutomata, lines 31-35: lock, load and flatten the patterns; the
\* build of g_acAutomaton begins
InitializeAutomata ==
    /\ serverPc = "start"
    /\ lock_guard(g_dataMutex)
    /\ g_dataMutex' = Main
    /\ \E loaded \in PatternFiles : g_patterns' = loaded
    /\ serverPc' = "building_ac"
    /\ UNCHANGED <<uploaded, worker, acVars, dfaVars, httpVars, dfabVars, pcapVars, ctlVars>>

\* line 38 returns: g_acAutomaton is built; the build of g_dfaBuilder begins
BuildAc ==
    /\ serverPc = "building_ac"
    /\ SetAc(buildFromPatterns(TheTrie, flattenPatterns(g_patterns)))
    /\ acPatterns' = flattenPatterns(g_patterns)
    /\ serverPc' = "building_dfa"
    /\ UNCHANGED <<scanText, scanResult, scanArgs, rescanned, acBuilds,
                   g_patterns, g_dataMutex, uploaded, worker,
                   dfaVars, httpVars, dfabVars, pcapVars, ctlVars>>

\* line 39 returns: g_dfaBuilder is built; initializeAutomata returns
\* (unlocking) and main reaches app.run()
BuildDfaAndRun ==
    /\ serverPc = "building_dfa"
    /\ LET b == dfa_buildFromPatterns(TheDfa, flattenPatterns(g_patterns))
       IN  /\ states' = b.states
           /\ startState' = b.startState
    /\ dfabPatterns' = flattenPatterns(g_patterns)
    /\ g_dataMutex' = NoThread
    /\ serverPc' = "running"
    /\ UNCHANGED <<dfabBuilds, matchText, matchPositions,
                   g_patterns, uploaded, worker, acVars, dfaVars, httpVars, pcapVars, ctlVars>>

\* a GET request for /patterns, /dfa or /ac-trie reaches a worker thread
GetRequest ==
    /\ serverPc = "running"
    /\ \E t \in Threads, r \in {"/patterns", "/dfa", "/ac-trie"} :
        /\ worker[t].pc = "idle"
        /\ worker' = [worker EXCEPT ![t] = [IdleWorker EXCEPT !.pc = "lock", !.route = r]]
    /\ UNCHANGED <<g_patterns, g_dataMutex, serverPc, uploaded,
                   acVars, dfaVars, httpVars, dfabVars, pcapVars, ctlVars>>

\* POST /scan, lines 94-125: the body is read and the three strings are
\* prepared; a std::stoi that throws ends the handler with status 400
ScanRequest ==
    /\ serverPc = "running"
    /\ \E t \in Threads, json_body \in ScanBodies :
        /\ worker[t].pc = "idle"
        /\ LET payloadStr == json_body.payload
               isHex == json_body.isHex
               l == ScanLocals(payloadStr, isHex)
               w == [IdleWorker EXCEPT !.route = "/scan", !.payloadStr = payloadStr,
                                       !.isHex = isHex, !.packetId = json_body.packetId]
           IN  worker' = [worker EXCEPT ![t] =
                            IF l.thrown
                            THEN [w EXCEPT !.pc = "done", !.status = 400]
                            ELSE [w EXCEPT !.pc = "lock", !.textToScan = l.textToScan,
                                           !.payloadHex = l.payloadHex,
                                           !.payloadAscii = l.payloadAscii]]
    /\ UNCHANGED <<g_patterns, g_dataMutex, serverPc, uploaded,
                   acVars, dfaVars, httpVars, dfabVars, pcapVars, ctlVars>>

\* POST /scan-pcap reaches a worker thread
ScanPcapRequest ==
    /\ serverPc = "running"
    /\ \E t \in Threads, body \in UploadBodies :
        /\ worker[t].pc = "idle"
        /\ worker' = [worker EXCEPT ![t] =
                        [IdleWorker EXCEPT !.pc = "open", !.route = "/scan-pcap",
                                           !.body = body]]
    /\ UNCHANGED <<g_patterns, g_dataMutex, serverPc, uploaded,
                   acVars, dfaVars, httpVars, dfabVars, pcapVars, ctlVars>>

\* line 175: std::ofstream out(filename, std::ios::binary) truncates the file
OpenUpload ==
    /\ \E t \in Threads :
        /\ worker[t].pc = "open"
        /\ uploaded' = CaptureFile(TRUE, <<>>, <<>>)
        /\ worker' = [worker EXCEPT ![t].pc = "write"]
    /\ UNCHANGED <<g_patterns, g_dataMutex, serverPc,
                   acVars, dfaVars, httpVars, dfabVars, pcapVars, ctlVars>>

\* lines 176-177: out.write(req.body), out.close()
WriteUpload ==
    /\ \E t \in Threads :
        /\ worker[t].pc = "write"
        /\ uploaded' = worker[t].body
        /\ worker' = [worker EXCEPT ![t].pc = "read"]
    /\ UNCHANGED <<g_patterns, g_dataMutex, serverPc,
                   acVars, dfaVars, httpVars, dfabVars, pcapVars, ctlVars>>

\* lines 180-183: reader.readPcapFile(filename); with no packet the loop is
\* skipped and the empty array is the response
ReadUpload ==
    /\ \E t \in Threads :
        /\ worker[t].pc = "read"
        /\ LET pkts == readPcapFile(uploaded)
           IN  worker' = [worker EXCEPT ![t] =
                            IF pkts = <<>>
                            THEN [@ EXCEPT !.pc = "done", !.status = 200]
                            ELSE [@ EXCEPT !.pc = "lock", !.packets = pkts]]
    /\ UNCHANGED <<g_patterns, g_dataMutex, serverPc, uploaded,
                   acVars, dfaVars, httpVars, dfabVars, pcapVars, ctlVars>>

\* a handler constructs its lock_guard and enters the operation on the shared
\* object (lines 56, 67, 78, 127, 185)
Lock ==
    /\ \E t \in Threads :
        /\ worker[t].pc = "lock"
        /\ lock_guard(g_dataMutex)
        /\ g_dataMutex' = t
        /\ worker' = [worker EXCEPT ![t].pc = "in"]
    /\ UNCHANGED <<g_patterns, serverPc, uploaded,
                   acVars, dfaVars, httpVars, dfabVars, pcapVars, ctlVars>>

\* GET /patterns, /dfa, /ac-trie, lines 57-58, 68-69, 79-80: the export
\* returns, the response is built, the lock_guard is destroyed
Export ==
    /\ \E t \in Threads :
        /\ worker[t].pc = "in"
        /\ worker[t].route \in {"/patterns", "/dfa", "/ac-trie"}
        /\ worker' = [worker EXCEPT ![t] =
              [@ EXCEPT !.pc = "done", !.status = 200,
                        !.response = CASE worker[t].route = "/patterns" -> <<toJson(g_patterns)>>
                                       [] worker[t].route = "/dfa" -> <<dfa_exportToJson(TheDfa)>>
                                       [] OTHER -> <<ac_exportToJson(TheTrie)>>]]
    /\ g_dataMutex' = NoThread
    /\ UNCHANGED <<g_patterns, serverPc, uploaded,
                   acVars, dfaVars, httpVars, dfabVars, pcapVars, ctlVars>>

\* POST /scan, lines 128-156: the scan returns, the response is built, the
\* lock_guard is destroyed
ScanPayload ==
    /\ \E t \in Threads :
        /\ worker[t].pc = "in"
        /\ worker[t].route = "/scan"
        /\ LET w == worker[t]
               a == [packetId |-> w.packetId, payloadHex |-> w.payloadHex,
                     payloadAscii |-> w.payloadAscii]
           IN  /\ worker' = [worker EXCEPT ![t] =
                     [@ EXCEPT !.pc = "done", !.status = 200,
                               !.response = <<ScanJson(scan(TheTrie, w.textToScan, a))>>]]
               /\ children' = ScanTouches(TheTrie, w.textToScan).children
    /\ g_dataMutex' = NoThread
    /\ UNCHANGED <<acPatterns, root, nextNodeId, failLink, output, scanText, scanResult,
                   scanArgs, rescanned, acBuilds, g_patterns, serverPc, uploaded,
                   dfaVars, httpVars, dfabVars, pcapVars, ctlVars>>

\* POST /scan-pcap, lines 184-208: one iteration of the loop over the packets
\* from the scan on (the lock_guard is destroyed at the end of the iteration);
\* after the last packet the response is returned
ScanPacket ==
    /\ \E t \in Threads :
        /\ worker[t].pc = "in"
        /\ worker[t].route = "/scan-pcap"
        /\ LET w == worker[t]
               packet == w.packets[Len(w.response) + 1]
               a == [packetId |-> packet.packetId, payloadHex |-> packet.payloadHex,
                     payloadAscii |-> packet.payloadAscii]
               last == Len(w.response) + 1 = Len(w.packets)
           IN  /\ worker' = [worker EXCEPT ![t] =
                     [@ EXCEPT !.pc = IF last THEN "done" ELSE "lock",
                               !.status = IF last THEN 200 ELSE 0,
                               !.response =
                                   Append(@, ScanJson(scan(TheTrie, packet.payloadAscii, a)))]]
               /\ children' = ScanTouches(TheTrie, packet.payloadAscii).children
    /\ g_dataMutex' = NoThread
    /\ UNCHANGED <<acPatterns, root, nextNodeId, failLink, output, scanText, scanResult,
                   scanArgs, rescanned, acBuilds, g_patterns, serverPc, uploaded,
                   dfaVars, httpVars, dfabVars, pcapVars, ctlVars>>

\* the response has been sent; the thread is free for the next request
Respond ==
    /\ \E t \in Threads :
        /\ worker[t].pc = "done"
        /\ worker' = [worker EXCEPT ![t] = IdleWorker]
    /\ UNCHANGED <<g_patterns, g_dataMutex, serverPc, uploaded,
                   acVars, dfaVars, httpVars, dfabVars, pcapVars, ctlVars>>

-----------------------------------------------------------------------------
(* PDAController *)

\* PDAEngine::validate(s) run to its return on a newly constructed engine
RECURSIVE RunEngine(_, _)
RunEngine(p, s) ==
    IF p.ret # "running" THEN p
    ELSE IF p.i = Len(s) THEN EndOfInput(p)
    ELSE LET q == StepChar(p, s[p.i + 1])
         IN  RunEngine(IF q.ret = "running" THEN [q EXCEPT !.i = @ + 1] ELSE q, s)

FreshEngineRun(s) == RunEngine(ValidateEntry(NewEngine), s)

\* the values of enum class PDAState
PDAStates ==
    <<"START", "METHOD", "SP1", "URI", "SP2", "VERSION", "REQUEST_LINE_CR", "HEADERS",
      "HEADER_NAME", "HEADER_COLON", "HEADER_VALUE", "HEADER_CR", "BODY", "ACCEPT", "ERROR">>

\* static_cast<int>(t.state)
StateInt(s) == (CHOOSE k \in DOMAIN PDAStates : PDAStates[k] = s) - 1

\* getNextTraceStep, lines 29-35
inputDesc(input) ==
    IF input = Epsilon THEN <<"eps">>
    ELSE IF input = "CR" THEN <<"BSL", "r">>
    ELSE IF input = "LF" THEN <<"BSL", "n">>
    ELSE <<input>>

\* getNextTraceStep, lines 37-42: the text made of a trace record
TraceLine(t) ==
    <<"State=", StateInt(t.state), " Input=", inputDesc(t.input),
      " StackTop=", t.stackTop, " Action=", t.action>>

\* the empty string
NoStep == <<>>

\* the object the constructor leaves (line 4)
NewController == [pda |-> NewEngine, payload |-> <<>>, traceIndex |-> 0]

\* the frontend: which of loadPacket / validate it called last, what
\* hasMoreSteps returned if it was the last call, and what the calls of
\* getNextTraceStep returned since the last loadPacket or validate
NewFrontend == [last |-> "none", hasMore |-> "none", steps |-> <<>>, calls |-> 0]

\* payloads the frontend loads: the empty one, one refused at its first
\* character, one refused inside the headers, an accepted request
CtlPayloads ==
    { <<>>, <<"x">>, RL_11 \o <<"x">>, RL_11 \o CRLF }

CtlInit ==
    /\ ctl = NewController
    /\ front = NewFrontend

\* PDAController::loadPacket
loadPacket(c, data) == [c EXCEPT !.payload = data, !.traceIndex = 0]

\* PDAController::validate
ctl_validate(c) ==
    [c EXCEPT !.pda = RunEngine(ValidateEntry(c.pda), c.payload), !.traceIndex = 0]

\* PDAController::hasMoreSteps
hasMoreSteps(c) == c.traceIndex < Len(c.pda.trace)

\* PDAController::getNextTraceStep: [ret, c]
getNextTraceStep(c) ==
    IF ~hasMoreSteps(c) THEN [ret |-> NoStep, c |-> c]
    ELSE [ret |-> TraceLine(c.pda.trace[c.traceIndex + 1]),
          c   |-> [c EXCEPT !.traceIndex = @ + 1]]

LoadPacket ==
    /\ front.calls < MaxCtlCalls
    /\ \E data \in CtlPayloads : ctl' = loadPacket(ctl, data)
    /\ front' = [last |-> "loadPacket", hasMore |-> "none", steps |-> <<>>,
                 calls |-> front.calls + 1]
    /\ UNCHANGED <<acVars, dfaVars, httpVars, dfabVars, pcapVars, srvVars>>

CtlValidate ==
    /\ front.calls < MaxCtlCalls
    /\ ctl' = ctl_validate(ctl)
    /\ front' = [last |-> "validate", hasMore |-> "none", steps |-> <<>>,
                 calls |-> front.calls + 1]
    /\ UNCHANGED <<acVars, dfaVars, httpVars, dfabVars, pcapVars, srvVars>>

HasMoreSteps ==
    /\ front.hasMore = "none"
    /\ front' = [front EXCEPT !.hasMore = IF hasMoreSteps(ctl) THEN "true" ELSE "false"]
    /\ UNCHANGED <<ctl, acVars, dfaVars, httpVars, dfabVars, pcapVars, srvVars>>

\* the frontend asks for the next step (once more, at most, after the one
\* call that returned the empty string)
GetNextTraceStep ==
    /\ IF front.steps = <<>> THEN TRUE ELSE front.steps[Len(front.steps)] # NoStep
    /\ LET r == getNextTraceStep(ctl)
       IN  /\ ctl' = r.c
           /\ front' = [front EXCEPT !.steps = Append(@, r.ret), !.hasMore = "none"]
    /\ UNCHANGED <<acVars, dfaVars, httpVars, dfabVars, pcapVars, srvVars>>

(* Specifications: one per component *)

InitAC == AcInit /\ DfaFresh /\ HttpIdle /\ DfabInit /\ PcapInit /\ SrvInit /\ CtlInit
AcNext == Build \/ Clear \/ Scan \/ Rescan \/ DropScan
SpecAC == InitAC /\ [][AcNext]_vars

InitDfa == AcInit /\ DfaInit /\ HttpIdle /\ DfabInit /\ PcapInit /\ SrvInit /\ CtlInit
DfaNext ==
    AddTransition \/ AddAcceptingState \/ Matches \/ DropMatch \/ InspectPayload \/ DropInspect
SpecDfa == InitDfa /\ [][DfaNext]_vars

\* a DfaMatcher with a pattern matcher set on it
InitPm == AcInit /\ DfaFresh /\ HttpIdle /\ DfabInit /\ PcapInit /\ SrvInit /\ CtlInit
PmNext == SetPatternMatcher \/ InspectPayload \/ DropInspect
SpecPm == InitPm /\ [][PmNext]_vars

InitHttp == AcInit /\ DfaFresh /\ HttpInit /\ DfabInit /\ PcapInit /\ SrvInit /\ CtlInit
HttpNext == PdaBegin \/ PdaStep \/ PdaFinish \/ HvRequestLine \/ HvHeaderLine \/ HvReturn
SpecHttp == InitHttp /\ [][HttpNext]_vars

\* an AhoCorasick whose builds may fail
InitAcFail == AcInit /\ DfaFresh /\ HttpIdle /\ DfabInit /\ PcapInit /\ SrvInit /\ CtlInit
AcFailNext == Build \/ BuildInterrupted
SpecAcFail == InitAcFail /\ [][AcFailNext]_vars

\* one of the two pattern automata built, rebuilt and run over texts
InitAutomata == AcInit /\ DfaFresh /\ HttpIdle /\ DfabInit /\ PcapInit /\ SrvInit /\ CtlInit
AutomataNext == Build \/ Scan \/ Rescan \/ DropScan \/ DfabBuild \/ DfabMatch \/ DfabDrop
SpecAutomata == InitAutomata /\ [][AutomataNext]_vars

\* a DFABuilder built, rebuilt and matched against texts
InitDfab == AcInit /\ DfaFresh /\ HttpIdle /\ DfabInit /\ PcapInit /\ SrvInit /\ CtlInit
DfabNext == DfabBuild \/ DfabMatch \/ DfabDrop
SpecDfab == InitDfab /\ [][DfabNext]_vars

\* PacketReader: calls of readPcapFile, one after another
InitPcap == AcInit /\ DfaFresh /\ HttpIdle /\ DfabInit /\ PcapInit /\ SrvInit /\ CtlInit
PcapNext == ReadPcapFile \/ ReadRecord \/ ReadEnd \/ DropPackets
SpecPcap == InitPcap /\ [][PcapNext]_vars

\* the API server: main() and its worker threads
InitServer == AcInit /\ DfaFresh /\ HttpIdle /\ DfabInit /\ PcapInit /\ SrvInit /\ CtlInit
ServerNext ==
    \/ InitializeAutomata \/ BuildAc \/ BuildDfaAndRun
    \/ GetRequest \/ ScanRequest \/ ScanPcapRequest
    \/ OpenUpload \/ WriteUpload \/ ReadUpload
    \/ Lock \/ Export \/ ScanPayload \/ ScanPacket \/ Respond
SpecServer == InitServer /\ [][ServerNext]_vars

\* PDAController: calls of its four methods in any order
InitController == AcInit /\ DfaFresh /\ HttpIdle /\ DfabInit /\ PcapInit /\ SrvInit /\ CtlInit
ControllerNext == LoadPacket \/ CtlValidate \/ HasMoreSteps \/ GetNextTraceStep
SpecController == InitController /\ [][ControllerNext]_vars

\* several messages validated one after another by the same two objects
InitHttpRepeat == AcInit /\ DfaFresh /\ HttpInitRepeat /\ DfabInit /\ PcapInit /\ SrvInit /\ CtlInit
HttpRepeatNext == HttpNext \/ NextMessage
SpecHttpRepeat == InitHttpRepeat /\ [][HttpRepeatNext]_vars

-----------------------------------------------------------------------------
(* Properties of AhoCorasick *)

Range(f) == {f[x] : x \in DOMAIN f}

Built   == root # NoNode
Scanned == scanText # NoText
Nodes   == 0 .. (nextNodeId - 1)

\* the pairs <<pattern, position>> of the last scan result
Reported == {<<m.pattern, m.position>> : m \in Range(scanResult.matches)}

\* pattern p equals, case-insensitively, the substring of text that ends at the
\* 0-based index i
EndsAt(p, text, i) ==
    /\ Len(p) <= i + 1
    /\ \A k \in 1..Len(p) : ToLower(text[i + 1 - Len(p) + k]) = ToLower(p[k])

\* i is the first index of text at which an occurrence of p ends
FirstEndsAt(p, text, i) ==
    /\ EndsAt(p, text, i)
    /\ \A j \in 0..(i - 1) : ~EndsAt(p, text, j)

\* C1: after buildFromPatterns(P), scan(T) reports <<p, i>> iff p is in P, the
\* substring of T ending at index i equals p case-insensitively and i is the
\* first such index; nothing else is reported.
C1_ScanReportsFirstOccurrences ==
    (Built /\ Scanned) =>
        Reported = {<<p, i>> \in Range(acPatterns) \X (0 .. (Len(scanText) - 1)) :
                       FirstEndsAt(p, scanText, i)}

\* C2: after buildFromPatterns, the output of every node other than Root
\* (depth-1 nodes included) contains every pattern of its fail link's output.
C2_OutputContainsFailOutput ==
    Built =>
        \A n \in Nodes \ {root} :
            Range(output[failLink[n]]) \subseteq Range(output[n])

\* the same two statements for pattern lists without the empty pattern (they
\* hold; what breaks C1 and C2 is the empty pattern alone)
NoEmptyPattern == \A p \in Range(acPatterns) : p # <<>>
ScanReportsFirstOccurrences_NonEmpty == NoEmptyPattern => C1_ScanReportsFirstOccurrences
OutputContainsFailOutput_NonEmpty    == NoEmptyPattern => C2_OutputContainsFailOutput

\* C19: in one scan result each distinct pattern string appears in at most one
\* match entry, also when it occurs several times in the text or is listed
\* several times in the pattern list; the entries are in non-decreasing
\* position order.
C19_OneMatchPerPattern ==
    \A i, j \in DOMAIN scanResult.matches :
        i < j => /\ scanResult.matches[i].pattern # scanResult.matches[j].pattern
                 /\ scanResult.matches[i].position <= scanResult.matches[j].position

\* a pattern listed twice and occurring twice in the text is reported once
C19_Witness ==
    /\ Built /\ Scanned
    /\ acPatterns = <<<<"a">>, <<"a">>>>
    /\ scanText = <<"A", "b", "A">>
    /\ scanResult.matches = <<[pattern |-> <<"a">>, position |-> 0]>>

\* two patterns reported at different positions
C19_WitnessTwoPatterns ==
    /\ Built /\ Scanned
    /\ Len(scanResult.matches) = 2
    /\ scanResult.matches[1].position < scanResult.matches[2].position

\* the node reached from the root along the characters of w, if there is one
RECURSIVE PathNode(_, _)
PathNode(n, w) ==
    IF w = <<>> THEN n
    ELSE IF Head(w) \in DOMAIN children[n] THEN PathNode(children[n][Head(w)], Tail(w))
    ELSE NoNode

LowerText(text) == [k \in DOMAIN text |-> ToLower(text[k])]

\* the node of the longest suffix of the first i characters of the text, lower
\* cased, that is a path of the trie
SuffixNode(text, i) ==
    LET fits == {k \in 0..i : PathNode(root, SubSeq(LowerText(text), i - k + 1, i)) # NoNode}
        k    == CHOOSE x \in fits : \A y \in fits : y <= x
    IN  PathNode(root, SubSeq(LowerText(text), i - k + 1, i))

\* C20: on a built automaton scan(T) produces exactly length(T) step records,
\* whatever matches; step i carries the original byte T[i], the id of the node
\* the automaton is in after consuming T[i], and that node's output list.
C20_OneStepPerCharacter ==
    (Built /\ Scanned) =>
        /\ Len(scanResult.steps) = Len(scanText)
        /\ \A i \in DOMAIN scanResult.steps :
              /\ scanResult.steps[i].character = scanText[i]
              /\ scanResult.steps[i].nodeId = SuffixNode(scanText, i)
              /\ scanResult.steps[i].outputs = output[scanResult.steps[i].nodeId]

\* three steps for a three-character text with one match, an upper-case byte
\* kept as it was, and a step taken along a fail link to a node that is not
\* the root
C20_Witness ==
    /\ Built /\ Scanned
    /\ Len(scanResult.steps) = 3 /\ Len(scanResult.matches) = 1
    /\ scanResult.steps[1].character = "A"
    /\ \E i \in 2..3 :
          /\ scanResult.steps[i].nodeId # root
          /\ ToLower(scanText[i]) \notin DOMAIN children[scanResult.steps[i - 1].nodeId]

\* as many steps without any match
C20_WitnessNoMatch ==
    /\ Built /\ Scanned
    /\ Len(scanResult.steps) = 3 /\ scanResult.matches = <<>>
    /\ \E i \in 1..3 : scanResult.steps[i].nodeId # root

\* what a fresh instance is after one buildFromPatterns(P)
FreshTrie(P) == buildFromPatterns(ClearedTrie, P)
FreshDfa(P)  == dfa_buildFromPatterns(NewBuilder, P)

MatchHeld == matchText # NoText

\* C23: an AhoCorasick built from the empty pattern list reports no match for
\* any text, every step staying at Root; a never-built or cleared one returns
\* no match and no step, and still echoes the packet id and the two payload
\* renderings it was given.
C23_DegenerateAutomataNeverMatch ==
    /\ (Built /\ Scanned /\ acPatterns = <<>>) =>
          /\ scanResult.matches = <<>>
          /\ Len(scanResult.steps) = Len(scanText)
          /\ \A i \in DOMAIN scanResult.steps :
                scanResult.steps[i].nodeId = root /\ scanResult.steps[i].outputs = <<>>
    /\ (~Built /\ Scanned) =>
          /\ scanResult.matches = <<>> /\ scanResult.steps = <<>>
          /\ scanResult.packetId = scanArgs.packetId
          /\ scanResult.payloadHex = scanArgs.payloadHex
          /\ scanResult.payloadAscii = scanArgs.payloadAscii

\* a cleared instance asked to scan a three-character text
C23_Witness ==
    /\ acBuilds > 0 /\ ~Built /\ Scanned
    /\ Len(scanText) = 3
    /\ scanResult.packetId = 4 /\ scanResult.payloadAscii = scanText
    /\ scanResult.steps = <<>>

C23_WitnessNeverBuilt ==
    acBuilds = 0 /\ Scanned /\ Len(scanText) = 3 /\ scanResult.payloadHex # <<>>

C23_WitnessEmptyList ==
    Built /\ acPatterns = <<>> /\ Scanned /\ Len(scanResult.steps) = 3

\* C24: a scan is a function of the pattern list and the text and changes
\* nothing: the result of a scan, or of a match, is the one a fresh automaton
\* built from the same list gives for the text, scanning the same text again
\* gives the same result, and the automaton (nodes, children, failure links,
\* outputs, id counter) is after the call what it was before.
C24_ScanIsPure ==
    [][/\ (Scanned' /\ (~Scanned \/ rescanned')) =>
            /\ TheTrie' = TheTrie
            /\ acBuilds > 0 =>
                  scanResult' = scan(FreshTrie(acPatterns), scanText', scanArgs')
            /\ rescanned' => scanResult' = scanResult
       /\ (MatchHeld' /\ ~MatchHeld) =>
            /\ TheDfa' = TheDfa
            /\ dfabBuilds > 0 =>
                  matchPositions' = match(FreshDfa(dfabPatterns), matchText')]_vars

\* a text with a match scanned twice on a rebuilt automaton
C24_Witness ==
    /\ Built /\ acBuilds = 2 /\ Scanned /\ rescanned
    /\ Len(scanText) = 3
    /\ Len(scanResult.matches) = 2

\* C21: after buildFromPatterns(P1) and then buildFromPatterns(P2) on the same
\* AhoCorasick or DFABuilder, the automaton (nodes or states, their ids, the id
\* counter) and every scan or match result equal those of a fresh instance
\* built from P2 alone.
C21_RebuildReplaces ==
    /\ acBuilds > 0 =>
          /\ TheTrie = FreshTrie(acPatterns)
          /\ Scanned => scanResult = scan(FreshTrie(acPatterns), scanText, scanArgs)
    /\ dfabBuilds > 0 =>
          /\ TheDfa = FreshDfa(dfabPatterns)
          /\ MatchHeld => matchPositions = match(FreshDfa(dfabPatterns), matchText)

\* a second build with a one-character pattern, scanned with a match: the
\* automaton has the two nodes 0 and 1 whatever the first build left
C21_Witness ==
    /\ acBuilds = 2 /\ Scanned
    /\ acPatterns = <<<<"a">>>>
    /\ nextNodeId = 2 /\ root = 0 /\ DOMAIN children = {0, 1}
    /\ Len(scanResult.matches) = 1

C21_WitnessDfa ==
    /\ dfabBuilds = 2 /\ MatchHeld
    /\ dfabPatterns = <<<<"a">>>>
    /\ DOMAIN states = {createStateId(0), createStateId(1)}
    /\ matchPositions # <<>>

\* C22: when buildFromPatterns does not run to completion, the automaton a
\* later scan works on is the one of the last completed build (or the
\* never-built instance), never an empty or a partially constructed one.
C22_BuildAllOrNothing ==
    TheTrie = IF acBuilds = 0 THEN ClearedTrie ELSE FreshTrie(acPatterns)

\* the three ways the automaton of a completed build is lost
BuildLeftEmpty ==
    acBuilds > 0 /\ acPatterns # <<>> /\ root = NoNode
BuildLeftBareRoot ==
    acBuilds > 0 /\ acPatterns # <<>> /\ root # NoNode /\ nextNodeId = 1
      /\ failLink[root] = NoNode
BuildLeftWithoutLinks ==
    acBuilds > 0 /\ root # NoNode /\ nextNodeId > 1 /\ \A n \in Nodes : failLink[n] = NoNode

\* the 0-based indices at which the AhoCorasick built from P finds something
\* in text: the steps with a non-empty output list
FullPassEnds(P, text) ==
    LET r == scan(FreshTrie(P), text, NoArgs)
    IN  {i \in 0..(Len(text) - 1) : r.steps[i + 1].outputs # <<>>}

\* C26: every position DFABuilder.match reports is an index at which an
\* occurrence of some pattern ends in the text, case-insensitively, and is
\* among the indices at which a full Aho-Corasick pass over the same patterns
\* finds something; the positions are reported in increasing order.  (It may
\* miss some of them.)
C26_StreamingMatchIsSound ==
    (dfabBuilds > 0 /\ MatchHeld) =>
        /\ \A k \in DOMAIN matchPositions :
              /\ matchPositions[k] \in 0..(Len(matchText) - 1)
              /\ \E p \in Range(dfabPatterns) : EndsAt(p, matchText, matchPositions[k])
              /\ matchPositions[k] \in FullPassEnds(dfabPatterns, matchText)
        /\ \A j, k \in DOMAIN matchPositions : j < k => matchPositions[j] < matchPositions[k]

\* a text in which an occurrence is reported and a later one is missed
C26_Witness ==
    /\ dfabBuilds > 0 /\ MatchHeld
    /\ matchPositions # <<>>
    /\ \E i \in 0..(Len(matchText) - 1) :
          /\ i \notin Range(matchPositions)
          /\ \E p \in Range(dfabPatterns) : p # <<>> /\ EndsAt(p, matchText, i)
          /\ i \in FullPassEnds(dfabPatterns, matchText)

\* the retry from the start state finds an occurrence that begins at the byte
\* on which the transition was missing
C26_WitnessRetry ==
    /\ dfabPatterns = <<<<"a", "B">>, <<"B">>>> /\ MatchHeld
    /\ matchText = <<"b", "b", "A">>
    /\ matchPositions = <<0, 1>>

-----------------------------------------------------------------------------
(* Properties of PDAEngine *)

EngineReturned == pda.ret \in {"true", "false"}
OuterReturned  == hv.pc = "returned"

AllIn(hs, S) == \A k \in DOMAIN hs : hs[k] \in S

\* the message is a well-formed request line, well-formed header lines, one
\* empty line (CRLF) and nothing after it
HeadersOnlyMessage(sh) ==
    /\ sh.rl \in WellFormedRequestLines
    /\ AllIn(sh.hs, WellFormedHeaders)
    /\ sh.last \in {<<>>, H_CL0}
    /\ sh.blank = CRLF
    /\ sh.body = <<>>

\* C3: PDAEngine.validate accepts (returns true, final state ACCEPT) every
\* message made of a well-formed request line ended by CRLF, zero or more
\* well-formed header lines each ended by CRLF, and one terminating empty line
\* with no body bytes after it.
C3_EngineAcceptsHeadersOnlyMessage ==
    (EngineReturned /\ HeadersOnlyMessage(shape)) =>
        (pda.ret = "true" /\ pda.state = "ACCEPT")

\* what the engine does accept: the same message with a second empty line
EngineAcceptsAfterTwoEmptyLines ==
    (/\ EngineReturned
     /\ shape.rl \in WellFormedRequestLines
     /\ AllIn(shape.hs, {H_Host})
     /\ shape.last \in {<<>>, H_CL0}
     /\ shape.blank = CRLF \o CRLF
     /\ shape.body = <<>>) =>
        (pda.ret = "true" /\ pda.state = "ACCEPT")

\* the characters the engine consumed in BODY, counted from its trace
BodyCharsConsumed(p) ==
    Cardinality({k \in DOMAIN p.trace :
                    p.trace[k].state = "BODY" /\ p.trace[k].input # Epsilon})

\* a content-length was recorded from the headers, and its value
LengthRecorded(p) == ContentLengthKey \in DOMAIN p.headers
RecordedLength(p) == ExtractInt(p.headers[ContentLengthKey]).val

\* validate is at the end of the input in BODY and returns
ReturnsAtEndOfBody ==
    /\ pda.ret = "running" /\ pda.state = "BODY" /\ pda.i = Len(msg)
    /\ pda'.ret # "running"

\* C4: at the end of the input in BODY, validate returns true iff no
\* content-length was recorded or the number of characters consumed in BODY
\* equals the recorded content-length (fewer or more both reject).
C4_BodyLengthDecidesAcceptance ==
    [][ReturnsAtEndOfBody =>
          /\ pda'.ret \in {"true", "false"}
          /\ pda'.ret = "true" <=>
                (~LengthRecorded(pda) \/ BodyCharsConsumed(pda) = RecordedLength(pda))]_vars

\* a body of the recorded length (2) has been accepted
C4_Witness ==
    /\ pda.ret = "true" /\ pda.state = "ACCEPT"
    /\ LengthRecorded(pda) /\ RecordedLength(pda) = 2
    /\ BodyCharsConsumed(pda) = 2

\* bodies shorter and longer than the recorded length, and bodies without a
\* recorded length, all occur
BodyShorterRejected ==
    pda.ret = "false" /\ LengthRecorded(pda) /\ pda.contentLengthRemaining >= 0
    /\ BodyCharsConsumed(pda) < RecordedLength(pda) /\ pda.i = Len(msg)
BodyLongerRejected ==
    pda.ret = "false" /\ LengthRecorded(pda) /\ pda.contentLengthRemaining >= 0
    /\ BodyCharsConsumed(pda) > RecordedLength(pda) /\ pda.i = Len(msg)
BodyUnknownLengthAccepted ==
    pda.ret = "true" /\ ~LengthRecorded(pda) /\ BodyCharsConsumed(pda) > 0
EmptyBodyUnknownLengthAccepted ==
    pda.ret = "true" /\ ~LengthRecorded(pda) /\ BodyCharsConsumed(pda) = 0

-----------------------------------------------------------------------------
(* Properties of HttpPdaValidator *)

\* C5: HttpPdaValidator.validate returns Invalid for a message whose headers
\* are closed by a blank line and declare Content-Length n when the number of
\* body bytes after the blank line differs from n.
C5_BodyLengthMismatchInvalid ==
    (/\ OuterReturned
     /\ shape.rl = RL_11
     /\ AllIn(shape.hs, {H_Host, H_CL2}) /\ H_CL2 \in Range(shape.hs)
     /\ shape.last = <<>>
     /\ shape.blank = CRLF
     /\ Len(shape.body) # 2) =>
        hv.result = "Invalid"

\* the Content-Length values a message's header lines declare
DeclaredLengths(sh) ==
    {n \in 0..2 : \E h \in Range(sh.hs) \cup {sh.last} :
        \/ n = 2 /\ h = H_CL2
        \/ n = 1 /\ h = H_cl1
        \/ n = 0 /\ h = H_CL0}

\* request line, 'name: value' header lines, an empty line, and either no body
\* or a body of a declared Content-Length
WellFormedMessage(sh, requestLines) ==
    /\ sh.rl \in requestLines
    /\ AllIn(sh.hs, WellFormedHeaders)
    /\ sh.last \in {<<>>, H_CL0}
    /\ sh.blank = CRLF
    /\ sh.body = <<>> \/ Len(sh.body) \in DeclaredLengths(sh)

\* C6 as stated: Valid for every such message whose request line has a
\* method, a path and an HTTP version token (HTTP/2 among them).
C6_ValidForAnyHttpVersion ==
    (OuterReturned /\ WellFormedMessage(shape, WellFormedRequestLines)) =>
        hv.result = "Valid"

\* C6: HttpPdaValidator.validate returns Valid for every message made of a
\* request line with method, path and the version token HTTP/1.1 or HTTP/1.0,
\* zero or more 'name: value' header lines, an empty line, and either no body
\* or a body whose length equals the declared Content-Length.
C6_ValidForHttp1 ==
    (OuterReturned /\ WellFormedMessage(shape, {RL_11, RL_10})) =>
        hv.result = "Valid"

\* a message with headers and a body of the declared length was found Valid
C6_Witness ==
    /\ OuterReturned /\ WellFormedMessage(shape, {RL_11, RL_10})
    /\ shape.hs # <<>> /\ shape.body # <<>>
    /\ hv.result = "Valid"

\* The lines of a message as std::getline delivers them: a line starts at
\* offset 0 and after every LF, provided characters remain.
LineStarts(s) == {k \in 0..(Len(s) - 1) : k = 0 \/ s[k] = "LF"}

LineStop(s, k) ==
    CHOOSE j \in (k + 1)..(Len(s) + 1) :
        /\ j = Len(s) + 1 \/ s[j] = "LF"
        /\ \A i \in (k + 1)..(j - 1) : s[i] # "LF"

LineAt(s, k) == SubSeq(s, k + 1, LineStop(s, k) - 1)

StripCR(l) == IF l # <<>> /\ l[Len(l)] = "CR" THEN SubSeq(l, 1, Len(l) - 1) ELSE l

\* the header lines: every line but the first, without its CR
HeaderStarts(s) == LineStarts(s) \ {0}
HeaderAt(s, k)  == StripCR(LineAt(s, k))

HasBlankLine(s) == \E k \in HeaderStarts(s) : HeaderAt(s, k) = <<>>

\* the whitespace-separated tokens of a line, by the positions they start at
TokenStarts(l) ==
    {k \in 1..Len(l) : ~IsSpace(l[k]) /\ (k = 1 \/ IsSpace(l[k - 1]))}

TokenFrom(l, k) ==
    LET e == CHOOSE j \in k..Len(l) :
                 /\ \A i \in k..j : ~IsSpace(l[i])
                 /\ j = Len(l) \/ IsSpace(l[j + 1])
    IN  SubSeq(l, k, e)

\* the request line has three tokens, the third HTTP/1.1 or HTTP/1.0
RequestLineOK(l) ==
    \E k \in TokenStarts(l) :
        /\ Cardinality({j \in TokenStarts(l) : j < k}) = 2
        /\ TokenFrom(l, k) \in {HTTP11, HTTP10}

IsContinuation(l) == l # <<>> /\ l[1] \in {"SP", "TAB"}

\* a header line is 'name:...' with a non-empty name, or a continuation line
\* that follows a header
HeaderLineOK(s, k) ==
    LET l == HeaderAt(s, k)
    IN  IF IsContinuation(l)
        THEN \E j \in HeaderStarts(s) :
                 j < k /\ HeaderAt(s, j) # <<>> /\ ~IsContinuation(HeaderAt(s, j))
        ELSE l[1] # ":" /\ \E i \in 1..Len(l) : l[i] = ":"

\* no line of the message is malformed
NothingMalformed(s) ==
    s # <<>> =>
        /\ RequestLineOK(LineAt(s, 0))
        /\ \A k \in HeaderStarts(s) : HeaderAt(s, k) # <<>> => HeaderLineOK(s, k)

EmptyMessageIncomplete == OuterReturned /\ msg = <<>> /\ hv.result = "Incomplete"

\* the request line has fewer than three tokens
LacksVersionToken(s) == s # <<>> /\ Cardinality(TokenStarts(LineAt(s, 0))) < 3

C8_WitnessWithBlankLine ==
    /\ LacksVersionToken(msg) /\ HasBlankLine(msg)
    /\ OuterReturned /\ hv.result = "Invalid"
    /\ pda.ret = "false"

\* C9: for every message HttpPdaValidator.validate returns Valid iff
\* PDAEngine.validate accepts it, and Invalid or Incomplete iff the engine
\* rejects it.
C9_OuterValidIffEngineAccepts ==
    (OuterReturned /\ EngineReturned) =>
        (hv.result = "Valid" <=> pda.ret = "true")

-----------------------------------------------------------------------------
(* Properties of DfaMatcher *)

Matched == matchData # NoText

\* the table has a run over data from the start state into an accepting state
AcceptingRun(data) ==
    \E q \in [0..Len(data) -> DfaStates] :
        /\ q[0] = start_state_
        /\ \A k \in 1..Len(data) :
              /\ <<q[k - 1], data[k]>> \in DOMAIN transitions_
              /\ transitions_[<<q[k - 1], data[k]>>] = q[k]
        /\ q[Len(data)] \in DOMAIN accepting_ /\ accepting_[q[Len(data)]]

\* the state the table reaches over data (NoNode when a transition is missing)
Reached(data) == MatchLoop(transitions_, start_state_, data)

\* C10: matches is whole-string acceptance: true iff every byte has a
\* transition from the state reached before it and the state reached after the
\* last byte is accepting (for empty input: iff the start state is accepting);
\* an accepted string with a byte appended is accepted only if the table has a
\* transition on that byte from the reached state into an accepting state.
C10_WholeStringAcceptance ==
    /\ Matched => (matchResult <=> AcceptingRun(matchData))
    /\ \A d \in DfaData : \A c \in DfaSymbols :
          (/\ Len(d) < MaxDataLen
           /\ matches(transitions_, accepting_, start_state_, d)
           /\ matches(transitions_, accepting_, start_state_, Append(d, c))) =>
              /\ <<Reached(d), c>> \in DOMAIN transitions_
              /\ transitions_[<<Reached(d), c>>] \in DOMAIN accepting_
              /\ accepting_[transitions_[<<Reached(d), c>>]]

\* an accepted string with a byte appended was accepted, by a table in which a
\* missing transition also occurs
C10_Witness ==
    /\ Matched /\ matchData # <<>> /\ matchResult
    /\ matches(transitions_, accepting_, start_state_,
               SubSeq(matchData, 1, Len(matchData) - 1))
    /\ \E d \in DfaData : Reached(d) = NoNode

C10_WitnessMissingTransition ==
    /\ Matched /\ ~matchResult /\ Reached(matchData) = NoNode
    /\ \E k \in 1..(Len(matchData) - 1) : Reached(SubSeq(matchData, 1, k)) # NoNode

C10_WitnessEmptyInput == Matched /\ matchData = <<>> /\ matchResult

\* the byte strings that differ from data in letter case only
CaseVariants(data) == {d \in DfaData : LowerStr(d) = LowerStr(data)}

\* C25: matching is case-insensitive for every matcher; for DfaMatcher.matches:
\* changing only the letter case of the data never changes the verdict.
C25_CaseInsensitiveVerdict ==
    Matched =>
        \A d \in CaseVariants(matchData) :
            matches(transitions_, accepting_, start_state_, d) = matchResult

\* a table with the one transition on "a" accepts "a" and not "A"
DfaMatcherIsCaseSensitive ==
    /\ Matched /\ matchData = <<"a">> /\ matchResult
    /\ ~matches(transitions_, accepting_, start_state_, <<"A">>)

-----------------------------------------------------------------------------
(* Properties of PatternMatcher and of the inspection calls of DfaMatcher *)

Inspected == payload # NoText

\* signature p occurs in data as a contiguous substring, letter case ignored
OccursIn(p, data) ==
    \E off \in 0..(Len(data) - Len(p)) :
        \A k \in 1..Len(p) : ToLower(data[off + k]) = ToLower(p[k])

\* the signatures of a list that occur in data, in the order of the list
RECURSIVE Occurring(_, _)
Occurring(ps, data) ==
    IF ps = <<>> THEN <<>>
    ELSE (IF OccursIn(Head(ps), data) THEN <<Head(ps)>> ELSE <<>>)
         \o Occurring(Tail(ps), data)

\* C11: get_matched_patterns(payload) returns exactly the configured
\* signatures that occur case-insensitively as a contiguous substring of the
\* payload, in configuration order and as configured, and
\* has_malicious_pattern(payload) is true iff that list is non-empty.
C11_MatchedSignatures ==
    (Inspected /\ ~pattern_matcher_.null) =>
        /\ anomalies = Occurring(pattern_matcher_.malicious_patterns_, payload)
        /\ inspectResult <=> (anomalies # <<>>)

\* two signatures were configured, the first does not occur, the second
\* occurs in the other letter case and is returned as configured
C11_Witness ==
    /\ Inspected /\ ~pattern_matcher_.null
    /\ Len(pattern_matcher_.malicious_patterns_) = 2
    /\ anomalies = <<pattern_matcher_.malicious_patterns_[2]>>
    /\ pattern_matcher_.malicious_patterns_[1] # pattern_matcher_.malicious_patterns_[2]
    /\ FindFrom(payload, anomalies[1], 0) = -1
    /\ inspectResult

\* C12: while no pattern matcher has been set, inspect_payload returns false
\* and get_payload_anomalies returns the empty list for every payload, after
\* any add_transition / add_accepting_state / matches calls.
C12_NoMatcherNoFinding ==
    (Inspected /\ pattern_matcher_.null) =>
        (inspectResult = FALSE /\ anomalies = <<>>)

\* a payload was inspected with no matcher set, after calls that filled the
\* transition table and the accepting states
C12_Witness ==
    /\ Inspected /\ pattern_matcher_.null /\ payload # <<>>
    /\ DOMAIN transitions_ # {} /\ DOMAIN accepting_ # {}
    /\ inspectResult = FALSE /\ anomalies = <<>>

-----------------------------------------------------------------------------
(* Further properties of PDAEngine *)

\* the message reaches the end-of-headers transition with the given line as its
\* last header line
ClosedAfter(sh, lines) ==
    /\ sh.rl \in WellFormedRequestLines
    /\ AllIn(sh.hs, OrdinaryHeaders)
    /\ sh.last \in lines
    /\ sh.blank = CRLF \o CRLF

\* C13: on the end-of-headers transition, a recorded content-length whose value
\* is not a well-formed non-negative decimal integer (empty, negative,
\* non-numeric, out of range, or digits followed by other characters) makes
\* validate fail (returns false, state ERROR).
C13_MalformedLengthRejected ==
    (EngineReturned /\ ClosedAfter(shape, MalformedLengthHeaders)) =>
        (pda.ret = "false" /\ pda.state = "ERROR")

\* the same for the values stream extraction cannot read as a non-negative
\* int: all of the above but digits followed by other characters
UnreadableLengthRejected ==
    (EngineReturned /\ ClosedAfter(shape, MalformedLengthHeaders \ {H_CL2x})) =>
        (pda.ret = "false" /\ pda.state = "ERROR" /\ pda.contentLengthRemaining = -1)

\* the trace records of the characters consumed, in order (the other records
\* are epsilon steps)
IsCharRecord(r) == r.input # Epsilon
CharRecords(p) == SelectSeq(p.trace, IsCharRecord)

\* the characters validate has consumed without failing
Consumed(p) == 1..p.i

\* an LF that the character before it does not make the end of a CRLF
BareLF(s, j) == s[j] = "LF" /\ (j = 1 \/ s[j - 1] # "CR")

\* C14: before BODY, an LF that is not immediately preceded by a recorded CR
\* moves the validator to ERROR and makes validate return false: no such LF is
\* consumed in a state before BODY.
C14_BareLFRejectedBeforeBody ==
    (pda.ret # "none") =>
        \A j \in Consumed(pda) :
            BareLF(msg, j) => CharRecords(pda)[j].state = "BODY"

\* where the statement does hold: in the request line and at the start of a
\* header line a bare LF is rejected
BareLFRejectedOutsideHeaderValue ==
    (pda.ret # "none") =>
        \A j \in Consumed(pda) :
            BareLF(msg, j) => CharRecords(pda)[j].state \in {"BODY", "HEADER_VALUE"}

\* the state validate is in matches what it has returned, and the characters
\* logged are those of the message up to the one that failed
ReturnState(p, s) ==
    /\ p.ret = "true"    => p.state = "ACCEPT" /\ p.i = Len(s)
    /\ p.ret = "false"   => p.state = "ERROR"
    /\ p.ret = "running" => p.state \notin {"ACCEPT", "ERROR"}
    /\ p.ret # "none" =>
          /\ Len(CharRecords(p)) = (IF p.ret = "false" /\ p.i < Len(s) THEN p.i + 1 ELSE p.i)
          /\ \A j \in 1..Len(CharRecords(p)) : CharRecords(p)[j].input = s[j]

\* C15: validate fails immediately: the character that drives the state to
\* ERROR is the last one consumed and logged, and validate returns false with
\* it; once validate has returned nothing of the engine changes; on return the
\* state is ACCEPT if it returned true and ERROR if it returned false.
C15_FailsImmediately ==
    [][/\ ReturnState(pda', msg')
       /\ EngineReturned => pda' = pda]_vars

\* validate has returned false at a character with characters left unread
C15_Witness ==
    /\ pda.ret = "false" /\ pda.state = "ERROR"
    /\ pda.i + 1 < Len(msg)
    /\ Len(CharRecords(pda)) = pda.i + 1

\* HttpPdaValidator::validate(s) run to its return on a newly constructed validator
RECURSIVE RunOuter(_, _)
RunOuter(v, s) ==
    IF v.pc = "returned" THEN v
    ELSE IF v.pc = "headers" /\ GetLine(s, v.pos).ok THEN RunOuter(ValidateHeaderLine(v, s), s)
    ELSE RunOuter(ValidateReturn(v), s)

FreshOuterRun(s) == RunOuter(ValidateRequestLine(NewValidator, s), s)

\* C16: validate resets all mutable fields at entry: in any sequence of
\* validate calls on one PDAEngine and one HttpPdaValidator, the result, the
\* trace and every field each call leaves equal those a newly constructed
\* object leaves for the same message.
C16_CallsAreIndependent ==
    /\ EngineReturned => pda = FreshEngineRun(msg)
    /\ OuterReturned  => hv = FreshOuterRun(msg)

\* a later call has accepted a body of unknown length on an engine whose
\* earlier call had recorded a content-length
C16_Witness ==
    /\ calls >= 1 /\ phase = "done"
    /\ pda.ret = "true" /\ ~LengthRecorded(pda) /\ BodyCharsConsumed(pda) = 1
    /\ hv.result = "Incomplete" \/ hv.result = "Valid"

\* the trace records of the pushes and of the pops of the request marker
PushRecords(p) == {k \in DOMAIN p.trace : p.trace[k].action[1] = "start request (R)"}
PopRecords(p)  == {k \in DOMAIN p.trace : p.trace[k].action[1] = "end request (R)"}

\* what C17 says of the stack whenever the push happens: '$' stays at the
\* bottom with at most one 'R' above it, 'R' is popped on the accept path only
\* and a call that returns true leaves '$' alone
MarkerDiscipline(p) ==
    /\ p.st \in {<<"$">>, <<"$", "R">>}
    /\ Cardinality(PushRecords(p)) <= 1
    /\ PopRecords(p) # {} => p.ret = "true"
    /\ p.ret = "true"  => p.st = <<"$">> /\ Cardinality(PopRecords(p)) = 1
    /\ p.ret = "false" => p.st = <<"$", "R">>

\* C17 as stated: the request marker is pushed when the validator enters
\* METHOD from START, so in START the stack holds '$' alone.
C17_MarkerPushedEnteringMethod ==
    /\ MarkerDiscipline(pda)
    /\ pda.state = "START" => pda.st = <<"$">>
    /\ (pda.ret = "running" /\ pda.state # "START") => pda.st = <<"$", "R">>

\* C17: the request marker 'R' is pushed at the entry of validate, before the
\* first character is read, and popped only on the accept path; the stack
\* never holds more than one 'R' above '$', '$' is never popped, a call that
\* returns true leaves '$' alone and a rejecting call never pops 'R'.
C17_MarkerPushedAtEntry ==
    /\ MarkerDiscipline(pda)
    /\ pda.ret = "none" => pda.st = <<"$">>
    /\ pda.ret = "running" => pda.st = <<"$", "R">>
    /\ pda.ret # "none" => PushRecords(pda) = {1}

\* an accepted call has popped the marker it pushed at entry
C17_Witness ==
    /\ pda.ret = "true" /\ pda.st = <<"$">>
    /\ PushRecords(pda) = {1} /\ Cardinality(PopRecords(pda)) = 1
    /\ pda.trace[Len(pda.trace)].stackTop = "$"

\* a call rejected at its first character holds the marker without having
\* entered METHOD
MarkerHeldWithoutMethod ==
    pda.ret = "false" /\ pda.i = 0 /\ msg # <<>> /\ pda.st = <<"$", "R">>

\* The header lines completed within the first n characters of s: a line ends
\* with CR LF; the first line is the request line; an empty line is no header.
LineEnds(s, n) == {j \in 2..n : s[j - 1] = "CR" /\ s[j] = "LF"}

PrevEnd(s, n, e) ==
    LET before == {j \in LineEnds(s, n) : j < e}
    IN  IF before = {} THEN 0 ELSE CHOOSE j \in before : \A i \in before : i <= j

LineBefore(s, n, e) == SubSeq(s, PrevEnd(s, n, e) + 1, e - 2)

HeaderEnds(s, n) ==
    {e \in LineEnds(s, n) : PrevEnd(s, n, e) # 0 /\ LineBefore(s, n, e) # <<>>}

ColonAt(l) == CHOOSE c \in 1..Len(l) : l[c] = ":" /\ \A i \in 1..(c - 1) : l[i] # ":"

\* the name of a header line, lower-cased
NameOf(l) == LET c == ColonAt(l) IN [k \in 1..(c - 1) |-> ToLower(l[k])]

\* the value of a header line: what follows the colon, without the spaces
\* before it and without the spaces and tabs after it
ValueOf(l) ==
    LET c    == ColonAt(l)
        from == CHOOSE f \in (c + 1)..(Len(l) + 1) :
                    /\ f = Len(l) + 1 \/ l[f] # "SP"
                    /\ \A i \in (c + 1)..(f - 1) : l[i] = "SP"
        to   == CHOOSE t \in (from - 1)..Len(l) :
                    /\ t = from - 1 \/ l[t] \notin {"SP", "TAB"}
                    /\ \A i \in (t + 1)..Len(l) : l[i] \in {"SP", "TAB"}
    IN  SubSeq(l, from, to)

\* the table of the header lines completed so far: the last line of a name wins
ExpectedHeaders(s, n) ==
    LET names == {NameOf(LineBefore(s, n, e)) : e \in HeaderEnds(s, n)}
    IN  [nm \in names |->
            LET ends == {e \in HeaderEnds(s, n) : NameOf(LineBefore(s, n, e)) = nm}
                last == CHOOSE e \in ends : \A i \in ends : i <= e
            IN  ValueOf(LineBefore(s, n, last))]

\* C18: at every point of a run the header table maps each lower-cased header
\* name to the value of the last completed (CRLF-terminated) header line of
\* that name, leading spaces skipped and trailing spaces and tabs removed; the
\* last Content-Length line, in any letter case, alone determines the declared
\* body length.
C18_HeaderTableLastWriteWins ==
    (pda.ret # "none") =>
        /\ pda.headers = ExpectedHeaders(msg, pda.i)
        /\ pda.contentLengthRemaining >= 0 =>
              /\ ContentLengthKey \in DOMAIN ExpectedHeaders(msg, pda.i)
              /\ ExtractInt(ExpectedHeaders(msg, pda.i)[ContentLengthKey])
                    = [ok |-> TRUE, val |-> pda.contentLengthRemaining]

\* two Content-Length lines in different letter cases and values, and a padded
\* Host line after a plain one: the later lines decide
C18_Witness ==
    /\ pda.state \in {"BODY", "ACCEPT"}
    /\ shape.hs = <<H_CL2, H_cl1>> /\ shape.last = H_HostPadded
    /\ DOMAIN pda.headers = {<<"h", "o", "s", "t">>, ContentLengthKey}
    /\ pda.headers[ContentLengthKey] = <<"1">>
    /\ pda.contentLengthRemaining = 1
    /\ pda.headers[<<"h", "o", "s", "t">>] = <<"b">>

C18_WitnessHostTwice ==
    /\ pda.ret = "running"
    /\ shape.hs = <<H_Host, H_cl1>> /\ shape.last = H_HostPadded
    /\ DOMAIN pda.headers = {<<"h", "o", "s", "t">>, ContentLengthKey}
    /\ pda.headers[<<"h", "o", "s", "t">>] = <<"b">>

\* the records a step of validate has appended to the trace
NewRecords(p, q) == (Len(p.trace) + 1)..Len(q.trace)

\* C27: every transition of validate appends a trace record.  The entry leaves
\* a trace that holds the push record alone, whatever an earlier call logged;
\* every later step keeps the records written so far and appends at least one;
\* a step that consumes a character (the one that causes rejection included)
\* appends exactly one record carrying it; each record carries the stack top
\* at the moment it is written; once validate has returned the trace stays as
\* it is until the next call.
C27_EveryTransitionLogged ==
    [][/\ (pda.ret # "running" /\ pda'.ret = "running") =>
            /\ Len(pda'.trace) = 1
            /\ pda'.trace[1].input = Epsilon
            /\ pda'.trace[1].stackTop = StackTop(pda'.st)
       /\ (pda.ret = "running" /\ pda' # pda) =>
            /\ SubSeq(pda'.trace, 1, Len(pda.trace)) = pda.trace
            /\ NewRecords(pda, pda') # {}
            /\ \A k \in NewRecords(pda, pda') :
                  pda'.trace[k].stackTop =
                      IF k = Len(pda'.trace) THEN StackTop(pda'.st) ELSE StackTop(pda.st)
            /\ IF pda.i < Len(msg)
               THEN Cardinality({k \in NewRecords(pda, pda') :
                                   pda'.trace[k].input = msg[pda.i + 1]}) = 1
               ELSE \A k \in NewRecords(pda, pda') : pda'.trace[k].input = Epsilon
            /\ \A k \in NewRecords(pda, pda') :
                  pda'.trace[k].input # Epsilon => pda'.trace[k].input = msg[pda.i + 1]
       /\ (pda.ret \in {"true", "false"} /\ pda'.ret # "running") =>
            pda'.trace = pda.trace]_vars

\* a later call rejected at its first character: the trace holds the push
\* record and the record of that character, nothing of the call before
C27_Witness ==
    /\ calls >= 1
    /\ pda.ret = "false" /\ pda.i = 0 /\ msg # <<>>
    /\ Len(pda.trace) = 2
    /\ pda.trace[2].input = msg[1] /\ pda.trace[2].stackTop = "R"

\* a later call accepted, with an epsilon record between two character records
C27_WitnessAccepted ==
    /\ calls >= 1
    /\ pda.ret = "true"
    /\ \E k \in 2..(Len(pda.trace) - 1) :
          /\ pda.trace[k - 1].input # Epsilon
          /\ pda.trace[k].input = Epsilon /\ pda.trace[k + 1].input # Epsilon
    /\ pda.trace[Len(pda.trace)].stackTop = "$"

-----------------------------------------------------------------------------
(* The payload-inspection demo of main() *)

\* the row of the demo table whose payload was inspected (0 if none)
DemoRow ==
    IF payload \in DemoPayloads
    THEN CHOOSE k \in DOMAIN test_cases : test_cases[k].payload = payload
    ELSE 0

\* C28: with the demo signature list installed, inspect_payload gives every
\* payload of the demo table its expected label (every row is a PASS).
C28_DemoTablePasses ==
    (pattern_matcher_ = PatternMatcher(malicious_patterns) /\ DemoRow # 0) =>
        inspectResult = test_cases[DemoRow].expected_malicious

\* the rows that pass: both benign requests, the XSS and the base64 payload
C28_RowsThatPass ==
    (pattern_matcher_ = PatternMatcher(malicious_patterns) /\ DemoRow \in {1, 3, 5, 6}) =>
        inspectResult = test_cases[DemoRow].expected_malicious

\* the SQL-injection row is reported not malicious, with no matched signature
DemoSqlRowFails ==
    /\ pattern_matcher_ = PatternMatcher(malicious_patterns)
    /\ DemoRow = 2 /\ ~inspectResult /\ anomalies = <<>>

\* the command-injection row is reported not malicious
DemoCommandRowFails ==
    /\ pattern_matcher_ = PatternMatcher(malicious_patterns)
    /\ DemoRow = 4 /\ ~inspectResult /\ anomalies = <<>>

-----------------------------------------------------------------------------
(* Properties of PacketReader *)

\* C29: readPcapFile never hands on a packet with a zero-length payload, and
\* the packets of its vector carry strictly increasing packet ids in list
\* order.  (Stated of the vector at every point of the call, so also of the
\* vector returned.)
C29_PayloadsNonEmptyIdsIncrease ==
    /\ \A k \in DOMAIN packets :
          /\ packets[k].payloadLength > 0
          /\ Len(packets[k].payloadBytes) = packets[k].payloadLength
    /\ \A j, k \in DOMAIN packets :
          j < k => packets[j].packetId < packets[k].packetId

\* a returned vector whose only packet is the second record of the file: the
\* first record, a TCP segment without payload, was dropped and took id 0
C29_Witness ==
    /\ readerPc = "returned"
    /\ Len(pcapFile.records) = 2
    /\ pcapFile.records[1] = Whole(8, Ipv4Tcp(40, 5, 5))
    /\ Len(packets) = 1 /\ packets[1].packetId = 1

\* a returned vector of two packets
C29_WitnessTwoPackets ==
    /\ readerPc = "returned"
    /\ Len(packets) = 2
    /\ packets[1].packetId = 0 /\ packets[2].packetId = 1

-----------------------------------------------------------------------------
(* Fail links of AhoCorasick *)

TrieNodes == DOMAIN children

\* the path of a node: the word that leads to it from the root
NodePath(n) ==
    CHOOSE w \in SeqsUpTo({ToLower(c) : c \in PatternChars}, MaxPatChars) :
        PathNode(root, w) = n

\* the node of the longest proper suffix of w that is a path of the trie (the
\* root, for the empty suffix, if no longer one is)
ProperSuffixNode(w) ==
    LET fits == {k \in 0..(Len(w) - 1) :
                    PathNode(root, SubSeq(w, Len(w) - k + 1, Len(w))) # NoNode}
        k    == CHOOSE x \in fits : \A y \in fits : y <= x
    IN  PathNode(root, SubSeq(w, Len(w) - k + 1, Len(w)))

\* following fail links from n reaches the root within `fuel` steps
RECURSIVE ReachesRoot(_, _)
ReachesRoot(n, fuel) ==
    IF n = root THEN TRUE
    ELSE IF fuel = 0 \/ n \notin TrieNodes THEN FALSE
    ELSE ReachesRoot(failLink[n], fuel - 1)

\* C30: after buildFromPatterns every trie node has a defined fail link: the
\* root's points to the root, and every other node's points to the node of the
\* longest proper suffix of its path that is a path of the trie (the root if
\* none), a strictly shallower node, so that following fail links from any
\* node reaches the root.
C30_FailLinksAreLongestSuffixes ==
    Built =>
        /\ failLink[root] = root
        /\ \A n \in TrieNodes \ {root} :
              /\ failLink[n] \in TrieNodes
              /\ failLink[n] = ProperSuffixNode(NodePath(n))
              /\ Len(NodePath(failLink[n])) < Len(NodePath(n))
              /\ ReachesRoot(n, Len(NodePath(n)))

\* a built trie with a chain of two fail links: a node of depth two points to
\* a node of depth one, which points to the root
C30_Witness ==
    /\ Built
    /\ \E n \in TrieNodes \ {root} :
          /\ Len(NodePath(n)) = 2
          /\ failLink[n] # root
          /\ failLink[failLink[n]] = root

\* a built trie where a node of depth three points to a node of depth two
C30_WitnessDeepLink ==
    /\ Built
    /\ \E n \in TrieNodes \ {root} :
          Len(NodePath(n)) = 3 /\ Len(NodePath(failLink[n])) = 2

-----------------------------------------------------------------------------
(* The end of the headers in PDAEngine *)

C31_WitnessInHeaders ==
    /\ pda.ret = "running" /\ pda.state = "HEADERS" /\ pda.consecutiveCRLFs = 1

\* a run that reached a count of 2 and was rejected in the same step
C31_WitnessRejected ==
    /\ pda.ret = "false" /\ pda.consecutiveCRLFs = 2
    /\ pda.trace[Len(pda.trace)].action = <<"invalid Content-Length">>

-----------------------------------------------------------------------------
(* The order of the states of PDAEngine *)

RequestLineStates ==
    <<"START", "METHOD", "SP1", "URI", "SP2", "VERSION", "REQUEST_LINE_CR", "HEADERS">>
HeaderStates == {"HEADERS", "HEADER_NAME", "HEADER_COLON", "HEADER_VALUE", "HEADER_CR"}

\* the place of a state in the request line (HEADERS, the last, is place 8)
Place(s) == CHOOSE k \in DOMAIN RequestLineStates : RequestLineStates[k] = s

\* C32: in a run of validate each step evaluates one transition for one input
\* character (the position advances by one and one character record is
\* written); a request-line state is kept or left for the next one of START,
\* METHOD, SP1, URI, SP2, VERSION, REQUEST_LINE_CR, HEADERS, never for an
\* earlier one; from HEADERS on the state stays among HEADERS, HEADER_NAME,
\* HEADER_COLON, HEADER_VALUE, HEADER_CR or becomes BODY; in BODY every
\* character keeps the state and adds one to the consumed-body count.  (A
\* step may instead end the run in ERROR.)
C32_StatesInProtocolOrder ==
    [][(pda.ret = "running" /\ pda.i < Len(msg) /\ pda' # pda) =>
         /\ Len(CharRecords(pda')) = Len(CharRecords(pda)) + 1
         /\ pda'.ret = "running" => pda'.i = pda.i + 1
         /\ pda'.ret # "running" => (pda'.state = "ERROR" /\ pda'.ret = "false")
         /\ pda'.state # "ERROR" =>
              /\ pda.state \in {"START", "SP1", "SP2", "REQUEST_LINE_CR"} =>
                    pda'.state = RequestLineStates[Place(pda.state) + 1]
              /\ pda.state \in {"METHOD", "URI", "VERSION"} =>
                    pda'.state \in {pda.state, RequestLineStates[Place(pda.state) + 1]}
              /\ pda.state \in HeaderStates => pda'.state \in HeaderStates \cup {"BODY"}
              /\ pda.state = "BODY" =>
                    /\ pda'.state = "BODY"
                    /\ pda'.bodyBytesConsumed = pda.bodyBytesConsumed + 1]_vars

\* an accepted run that was in every state from START to BODY and consumed
\* body bytes
C32_Witness ==
    /\ pda.ret = "true"
    /\ pda.bodyBytesConsumed >= 1
    /\ ({RequestLineStates[k] : k \in DOMAIN RequestLineStates}
            \cup HeaderStates \cup {"BODY"})
          \subseteq {pda.trace[k].state : k \in DOMAIN pda.trace}

\* a run that read body bytes beyond the announced Content-Length
C32_WitnessLongBody ==
    /\ pda.state = "BODY"
    /\ pda.contentLengthRemaining >= 0
    /\ pda.bodyBytesConsumed > pda.contentLengthRemaining

-----------------------------------------------------------------------------
(* Properties of the API server *)

\* the thread is inside an operation on g_patterns or on one of the automata
Inside(t) == worker[t].pc = "in"

\* C33: every access to the shared pattern map and to the two global automata
\* happens while the accessing thread holds g_dataMutex: the builds of
\* initializeAutomata run under the lock of main() before any worker serves a
\* request, a worker is inside a scan or an export only while it holds the
\* lock, and no two workers are inside such an operation at once.
C33_SharedDataUnderLock ==
    /\ \A t \in Threads : Inside(t) => g_dataMutex = t
    /\ serverPc \in {"building_ac", "building_dfa"} =>
          /\ g_dataMutex = Main
          /\ \A t \in Threads : worker[t].pc = "idle"
    /\ \A t1, t2 \in Threads : (Inside(t1) /\ Inside(t2)) => t1 = t2

\* one worker is inside a scan while another waits for the lock to export the
\* trie
C33_Witness ==
    \E t1, t2 \in Threads :
        /\ Inside(t1) /\ worker[t1].route = "/scan"
        /\ worker[t2].pc = "lock" /\ worker[t2].route = "/ac-trie"

\* a worker scanning a packet of an upload while another waits to scan its own
C33_WitnessUploads ==
    \E t1, t2 \in Threads :
        /\ Inside(t1) /\ worker[t1].route = "/scan-pcap"
        /\ worker[t2].pc = "lock" /\ worker[t2].route = "/scan-pcap"

\* the response /scan-pcap owes a request with this body: one scan result per
\* packet of the body, in order
UploadResponse(body) ==
    LET pkts == readPcapFile(body)
    IN  [k \in 1..Len(pkts) |->
            ScanJson(scan(TheTrie, pkts[k].payloadAscii,
                          [packetId |-> pkts[k].packetId, payloadHex |-> pkts[k].payloadHex,
                           payloadAscii |-> pkts[k].payloadAscii]))]

\* C34: under concurrent /scan-pcap requests each response holds the scan
\* results of exactly the packets of the request's own uploaded body.
C34_ResponseIsOfOwnUpload ==
    \A t \in Threads :
        (worker[t].route = "/scan-pcap" /\ worker[t].pc = "done") =>
            worker[t].response = UploadResponse(worker[t].body)

\* a request answered with the scan results of the other request's packets
UploadAnsweredFromOtherBody ==
    \E t1, t2 \in Threads :
        /\ worker[t1].route = "/scan-pcap" /\ worker[t1].pc = "done"
        /\ worker[t2].route = "/scan-pcap"
        /\ worker[t1].body # worker[t2].body
        /\ worker[t1].response # <<>>
        /\ worker[t1].response = UploadResponse(worker[t2].body)
        /\ worker[t1].response # UploadResponse(worker[t1].body)

\* a request answered with the empty array although its body holds a packet:
\* it read the file after the other request had truncated it
UploadAnsweredFromTruncatedFile ==
    \E t \in Threads :
        /\ worker[t].route = "/scan-pcap" /\ worker[t].pc = "done"
        /\ worker[t].response = <<>>
        /\ UploadResponse(worker[t].body) # <<>>

-----------------------------------------------------------------------------
(* HttpPdaValidator: header lines *)

\* the lines of the message as the validate loop sees them: split at LF, a
\* trailing CR removed
RECURSIVE LinesFrom(_, _)
LinesFrom(s, pos) ==
    LET g == GetLine(s, pos)
        line == IF g.line # <<>> /\ g.line[Len(g.line)] = "CR"
                THEN SubSeq(g.line, 1, Len(g.line) - 1) ELSE g.line
    IN  IF ~g.ok THEN <<>> ELSE <<line>> \o LinesFrom(s, g.next)

\* the number of the line that begins at stream position pos (1 = request line)
LineNo(s, pos) == Cardinality({k \in 1..pos : s[k] = "LF"}) + 1

StartsBlank(line) == line # <<>> /\ line[1] \in {"SP", "TAB"}

\* the line contains a ':' that is not its first character
ColonNotFirst(line) == \E k \in 2..Len(line) : line[k] = ":"

\* the line contains a ':' and does not begin with one
FirstColonNotFirst(line) ==
    /\ \E k \in 1..Len(line) : line[k] = ":"
    /\ line[1] # ":"

IsPrefix(s, t) == Len(s) <= Len(t) /\ SubSeq(t, 1, Len(s)) = s

\* what one iteration of the header loop does with a non-empty line, Named
\* being what makes a line a 'name: value' line
HeaderLineRule(Named(_)) ==
    (hv.pc = "headers" /\ GetLine(msg, hv.pos).ok /\ hv' # hv) =>
        LET all  == LinesFrom(msg, 0)
            n    == LineNo(msg, hv.pos)
            line == all[n]
            accepted == hv'.pc = "headers"
        IN  line # <<>> =>
            /\ (StartsBlank(line) /\ accepted) =>
                    /\ hv.stack_[Len(hv.stack_)] = "H"
                    /\ \E j \in 2..(n - 1) : ~StartsBlank(all[j]) /\ Named(all[j])
            /\ (StartsBlank(line) /\ n = 2) =>
                    hv'.pc = "returned" /\ hv'.result = "Invalid"
            /\ ~StartsBlank(line) => (accepted <=> Named(line))
            /\ ~accepted => (hv'.pc = "returned" /\ hv'.result = "Invalid")

C35_WitnessRefused ==
    /\ shape.rl = RL_11 /\ shape.hs = <<>> /\ shape.last = H_Continuation
    /\ hv.result = "Invalid" /\ hv.stack_ = <<"R">>

\* a line with a second ':' but beginning with one was refused
C35_WitnessSecondColon ==
    /\ shape.rl = RL_11 /\ shape.hs = <<>> /\ shape.last = H_SecondColon
    /\ hv.result = "Invalid" /\ hv.stack_ = <<"R">>

-----------------------------------------------------------------------------
(* Properties of PDAController *)

\* what the frontend was given since the last validate is the trace of the
\* validation of the loaded payload, in order, and then the empty string;
\* hasMoreSteps says whether records remain
StepsAfterValidateInOrder ==
    front.last = "validate" =>
        LET tr == FreshEngineRun(ctl.payload).trace
        IN  /\ \A k \in 1..Len(front.steps) :
                    front.steps[k] = IF k <= Len(tr) THEN TraceLine(tr[k]) ELSE NoStep
            /\ front.hasMore # "none" =>
                    (front.hasMore = "true" <=> Len(front.steps) < Len(tr))

\* between loadPacket and validate no step is offered
NoStepBeforeValidate ==
    front.last = "loadPacket" =>
        /\ front.hasMore # "true"
        /\ \A k \in 1..Len(front.steps) : front.steps[k] = NoStep

\* C36: the trace steps offered always belong to the loaded payload: after
\* loadPacket(p) and before validate() no step is available (hasMoreSteps is
\* false, getNextTraceStep returns the empty string); after validate() the
\* calls of getNextTraceStep return the records of that validation in order,
\* one per call, and hasMoreSteps is true exactly while records remain.
C36_StepsBelongToLoadedPayload ==
    NoStepBeforeValidate /\ StepsAfterValidateInOrder

\* on a new controller no step is offered after loadPacket
NoStepAfterFirstLoad == front.calls = 1 => NoStepBeforeValidate

\* after a validation and a further loadPacket the frontend was given a record
\* of the validation of the payload loaded before
StaleStepOffered ==
    /\ front.last = "loadPacket"
    /\ LET tr == FreshEngineRun(ctl.payload).trace
       IN  \E k \in 1..Len(front.steps) :
               /\ front.steps[k] # NoStep
               /\ IF k > Len(tr) THEN TRUE ELSE front.steps[k] # TraceLine(tr[k])

\* hasMoreSteps returned true between loadPacket and validate
StaleStepAnnounced == front.last = "loadPacket" /\ front.hasMore = "true"

\* every record of a validation was stepped through
AllStepsGiven ==
    /\ front.last = "validate" /\ ctl.payload = RL_11 \o CRLF
    /\ Len(front.steps) = Len(ctl.pda.trace) + 1
    /\ front.hasMore = "false"

-----------------------------------------------------------------------------
(* Properties of POST /scan *)

IsHexString(s) ==
    /\ Len(s) % 2 = 0
    /\ \A k \in 1..Len(s) : HexValue(s[k]) >= 0

\* the bytes a string of hex digit pairs stands for
HexDecode(s) ==
    [k \in 1..(Len(s) \div 2) |-> Chr(16 * HexValue(s[2 * k - 1]) + HexValue(s[2 * k]))]

\* the raw payload bytes of a request
RawBytes(w) == IF w.isHex THEN HexDecode(w.payloadStr) ELSE w.payloadStr

\* two lower-case hex digits per byte
HexOf(bytes) == bytesToHex([k \in 1..Len(bytes) |-> CharCode(bytes[k])])

\* printable characters as they are, '.' for the others
PrintableOf(bytes) ==
    [k \in 1..Len(bytes) |->
        IF CharCode(bytes[k]) >= 32 /\ CharCode(bytes[k]) <= 126 THEN bytes[k] ELSE "."]

\* a worker is about to scan, or scanning, for /scan
ScanPrepared(t) ==
    /\ worker[t].route = "/scan" /\ worker[t].pc \in {"lock", "in"}
    /\ worker[t].isHex => IsHexString(worker[t].payloadStr)

\* C37: for POST /scan the three renderings handed to the scanner are
\* consistent: the scanned text is exactly the raw bytes (the decoded bytes
\* when isHex, the submitted string otherwise), payloadHex is the hex encoding
\* of those bytes and payloadAscii their printable rendering.
C37_RenderingsConsistent ==
    \A t \in Threads :
        ScanPrepared(t) =>
            /\ worker[t].textToScan = RawBytes(worker[t])
            /\ worker[t].payloadHex = HexOf(RawBytes(worker[t]))
            /\ worker[t].payloadAscii = PrintableOf(RawBytes(worker[t]))

\* payloadAscii alone is the printable rendering of the raw bytes
ScanAsciiIsRendering ==
    \A t \in Threads :
        ScanPrepared(t) => worker[t].payloadAscii = PrintableOf(RawBytes(worker[t]))

\* what the handler hands over instead: for hex input the scanned text is the
\* hex string followed by the decoded bytes, for text input payloadHex is the
\* text followed by its hex encoding
ScanStringsAsBuilt ==
    \A t \in Threads :
        ScanPrepared(t) =>
            LET w == worker[t]
            IN  IF w.isHex
                THEN /\ w.textToScan = w.payloadStr \o RawBytes(w)
                     /\ w.payloadHex = w.payloadStr
                ELSE /\ w.textToScan = w.payloadStr
                     /\ w.payloadHex = w.payloadStr \o HexOf(w.payloadStr)

\* hex input was scanned with its hex digits in front of the bytes
ScannedHexDigits ==
    \E t \in Threads :
        /\ ScanPrepared(t) /\ worker[t].isHex
        /\ worker[t].textToScan = <<"6", "1", "4", "2", "a", "B">>

\* a match position of a response counts the hex digits: "B" is byte 1 of the
\* raw payload "aB" and is reported at position 5
MatchPositionCountsHexDigits ==
    \E t \in Threads :
        /\ worker[t].route = "/scan" /\ worker[t].pc = "done" /\ worker[t].status = 200
        /\ worker[t].payloadStr = <<"6", "1", "4", "2">>
        /\ \E k \in 1..Len(worker[t].response[1].matches) :
                worker[t].response[1].matches[k].position = 5

-----------------------------------------------------------------------------
(* DFABuilder: the states after a build *)

DfabBuilt == dfabBuilds > 0

\* the lower-cased patterns of the last build and their prefixes
LowerPatterns == {LowerStr(dfabPatterns[k]) : k \in DOMAIN dfabPatterns}
PatternPrefixes ==
    UNION {{SubSeq(q, 1, k) : k \in 1..Len(q)} : q \in LowerPatterns} \cup {<<>>}

NoState == <<"none">>

\* the state reached from the start state on the characters of w from k on
RECURSIVE WalkFrom(_, _, _)
WalkFrom(s, w, k) ==
    IF k > Len(w) THEN s
    ELSE IF s \notin DOMAIN states THEN NoState
    ELSE IF w[k] \notin DOMAIN states[s].transitions THEN NoState
    ELSE WalkFrom(states[s].transitions[w[k]], w, k + 1)

StateOf(prefix) == WalkFrom(startState, prefix, 1)

\* the transitions that lead to the state s
Incoming(s) ==
    {<<from, c>> \in UNION {{<<from, c>> : c \in DOMAIN states[from].transitions} :
                                from \in DOMAIN states} :
        states[from].transitions[c] = s}

C38_WitnessRebuiltEmpty ==
    /\ dfabBuilds = 2
    /\ dfabPatterns = << <<>> >>
    /\ DOMAIN states = {createStateId(0)}
    /\ states[startState].isAccepting

-----------------------------------------------------------------------------
(* AhoCorasick: the order of the patterns *)

\* the pattern lists that name the patterns of ps, in any order and any
\* number of times
Rearranged(ps) == {qs \in PatternLists : Range(qs) = Range(ps)}

\* the (pattern, position) pairs scan reports for text on an automaton newly
\* built from the list qs
MatchSetOf(qs, text) ==
    LET r == scan(buildFromPatterns(ClearedTrie, qs), text, ScanArgs(text))
    IN  {<<m.pattern, m.position>> : m \in Range(r.matches)}

\* C39: the set of (pattern, position) matches scan returns does not depend on
\* the order or the multiplicity of the patterns at build time: an automaton
\* built from any rearrangement of the same patterns reports the same set for
\* the text.
C39_MatchSetIgnoresPatternOrder ==
    (Built /\ Scanned) =>
        \A qs \in Rearranged(acPatterns) : MatchSetOf(qs, scanText) = Reported

\* two patterns, one inside the other, both matched; the list has another order
C39_Witness ==
    /\ Built /\ Scanned
    /\ acPatterns = << <<"a", "B">>, <<"B">> >>
    /\ << <<"B">>, <<"a", "B">> >> \in Rearranged(acPatterns)
    /\ Cardinality(Reported) = 2

\* a list that names its only pattern twice, the pattern being matched
C39_WitnessTwice ==
    /\ Built /\ Scanned
    /\ acPatterns = << <<"B">>, <<"B">> >>
    /\ << <<"B">> >> \in Rearranged(acPatterns)
    /\ Cardinality(Reported) = 1

-----------------------------------------------------------------------------
(* PacketReader: the bytes read from a packet buffer *)

\* the records of the file for which the loop has called extractTcpPayload
\* (with the buffer of incl_len bytes it read)
Extracted ==
    {k \in 1..filePos :
        LET rec == pcapFile.records[k]
        IN  rec.incl_len > 0 /\ rec.incl_len <= MAX_PACKET_SIZE /\ Len(rec.data) = rec.incl_len}

\* C40: for every buffer and length, isValidTcpPacket, findTcpPayloadStart and
\* extractTcpPayload read only indices below packetLength; the payload offset
\* satisfies 0 <= payloadStart <= packetLength; the extracted payload is the
\* bytes from payloadStart to packetLength and payloadLength is packetLength -
\* payloadStart.
C40_ReadsInsideThePacket ==
    \A k \in Extracted :
        LET data   == pcapFile.records[k].data
            length == pcapFile.records[k].incl_len
            inside == 0 .. (length - 1)
            packet == extractTcpPayload(data, length, 0, 0)
        IN  /\ ReadsOfIsValidTcpPacket(data, length) \subseteq inside
            /\ ReadsOfExtractTcpPayload(data, length) \subseteq inside
            /\ isValidTcpPacket(data, length) =>
                  LET payloadStart == findTcpPayloadStart(data, length)
                  IN  /\ ReadsOfFindTcpPayloadStart(data, length) \subseteq inside
                      /\ 0 <= payloadStart /\ payloadStart <= length
                      /\ packet.payloadBytes =
                            [j \in 1..(length - payloadStart) |-> data[payloadStart + j]]
                      /\ packet.payloadLength = length - payloadStart

\* an IPv6 segment was extracted: its one payload byte is byte 60 of 61
C40_Witness ==
    /\ \E k \in Extracted : pcapFile.records[k] = Whole(9, Ipv6Tcp(61, 5))
    /\ \E p \in Range(packets) : p.payloadBytes = <<60>> /\ p.payloadLength = 1

\* extracted from a packet whose IP header ends 12 bytes before the end: the
\* data offset would be byte 44 of 44
C40_WitnessNoTcpHeader ==
    \E k \in Extracted :
        /\ pcapFile.records[k] = Whole(7, Ipv4Tcp(44, 8, 5))
        /\ findTcpPayloadStart(pcapFile.records[k].data, 44) = 44

====
